---- MODULE Spec2Model ----
(***************************************************************************)
(* Model of the library scan-and-cache subsystem of mf (media file finder) *)
(* as implemented in src/mf/utils/file.py, cache.py, search.py and scan.py.*)
(*                                                                         *)
(* State: the clock, the files below the search roots, the library cache   *)
(* file (library.json), the search-result cache file (last_search.json),   *)
(* the configuration, and the outcome of the last completed operation.     *)
(***************************************************************************)
EXTENDS Integers, Sequences, FiniteSets, TLC

VARIABLES
    now,        \* wall clock, in seconds
    present,    \* the regular files that exist below the real directories
    mtimes,     \* modification time of every file of RealFiles (0 when absent)
    lib,        \* library cache file: [exists, kind, files, mtime]
    libCap,     \* ghost: the modification times captured by the rebuild that
                \* wrote lib.files, in the order of lib.files (not persisted)
    search,     \* search-result cache file: [exists, pattern, results]
    hist,       \* ghost: the collection handed to the last save_search_results
                \* and the result of the latest query executed since then
    cfg,        \* configuration as returned by read_config()
    last,       \* outcome of the last completed operation (with ghost fields)
    run         \* the operation in progress, where its steps are modelled
                \* one by one: threads or processes and their locals

vars == <<now, present, mtimes, lib, libCap, search, hist, cfg, last, run>>

\* No operation is in progress.
NoRun == [op |-> "none"]

(***************************************************************************)
(* Bounds of the model.                                                    *)
(***************************************************************************)
MaxTime == 2        \* the clock runs over 0..MaxTime
MaxTTL == 1         \* library_cache_interval ranges over 0..MaxTTL seconds
MaxN == 3           \* NewQuery(n) is called with n in 1..MaxN
MaxIndex == 3       \* get_result_by_index(N) with N in -MaxIndex..MaxIndex
MaxLen == 3         \* collections handed to the FileResults methods have
                    \* at most MaxLen entries
MaxWorkers == 2     \* search paths, and so workers, of a scan in progress
MaxBig == 11        \* files of the root with many files
MaxDoc == 2         \* a document written to a cache file has 1..MaxDoc parts

(***************************************************************************)
(* FileResult.mtime defaults to None: modelled as a value below every      *)
(* modification time.                                                      *)
(***************************************************************************)
NoMtime == -1

(***************************************************************************)
(* Directories, files and paths.  "lnk" is a symbolic link to directory    *)
(* "r1": scanning it lists the files of r1 under the prefix lnk/, and      *)
(* Path.resolve() maps lnk/x back to r1/x.  File names are sequences of    *)
(* one-character strings.                                                  *)
(***************************************************************************)
Roots == {"r1", "r2", "lnk"}

Target(root) == IF root = "lnk" THEN "r1" ELSE root

RealFiles ==
    { [root |-> "r1", name |-> <<"A", "b", ".", "m">>],
      [root |-> "r1", name |-> <<"b", ".", "M">>],
      [root |-> "r2", name |-> <<"a", "b", ".", "m">>],
      [root |-> "r2", name |-> <<"c", ".", "t">>] }

Resolve(path) == [root |-> Target(path.root), name |-> path.name]

Exists(path) == Resolve(path) \in present

FileResult(path, mt) == [file |-> path, mtime |-> mt]

FromString(path) == FileResult(path, NoMtime)

FromPaths(paths) == [i \in 1..Len(paths) |-> FromString(paths[i])]

Str(result) == Resolve(result.file)

AsPosix(result) == result.file

(***************************************************************************)
(* Characters: lower-casing and code points (for the filename sort key).   *)
(***************************************************************************)
Lower(c) ==
    CASE c = "A" -> "a"
      [] c = "B" -> "b"
      [] c = "M" -> "m"
      [] OTHER -> c

LowerSeq(s) == [i \in 1..Len(s) |-> Lower(s[i])]

Code(c) ==
    CASE c = "." -> 46
      [] c = "A" -> 65
      [] c = "B" -> 66
      [] c = "M" -> 77
      [] c = "a" -> 97
      [] c = "b" -> 98
      [] c = "c" -> 99
      [] c = "m" -> 109
      [] c = "t" -> 116
      [] OTHER -> 0

RECURSIVE StrLeq(_, _)
StrLeq(s, t) ==
    IF s = <<>> THEN TRUE
    ELSE IF t = <<>> THEN FALSE
    ELSE IF Code(Head(s)) < Code(Head(t)) THEN TRUE
    ELSE IF Code(Head(s)) > Code(Head(t)) THEN FALSE
    ELSE StrLeq(Tail(s), Tail(t))

(***************************************************************************)
(* Path.suffix: the part of the name from its last dot, empty when the     *)
(* name has no dot, starts with its only dot or ends with a dot.           *)
(***************************************************************************)
LastDot(name) ==
    LET dots == { i \in 1..Len(name) : name[i] = "." }
    IN  IF dots = {} THEN 0 ELSE CHOOSE i \in dots : \A j \in dots : j <= i

Suffix(name) ==
    LET i == LastDot(name)
    IN  IF 1 < i /\ i < Len(name) THEN SubSeq(name, i, Len(name)) ELSE <<>>

(***************************************************************************)
(* fnmatch: glob matching with * and ? (the patterns of the model use no   *)
(* character classes).                                                     *)
(***************************************************************************)
RECURSIVE Fnmatch(_, _)
Fnmatch(s, p) ==
    IF p = <<>> THEN s = <<>>
    ELSE IF Head(p) = "*"
         THEN Fnmatch(s, Tail(p)) \/ (s # <<>> /\ Fnmatch(Tail(s), p))
    ELSE IF Head(p) = "?"
         THEN s # <<>> /\ Fnmatch(Tail(s), Tail(p))
    ELSE s # <<>> /\ Head(s) = Head(p) /\ Fnmatch(Tail(s), Tail(p))

normalize_pattern(pattern) ==
    IF \E i \in 1..Len(pattern) : pattern[i] \in {"*", "?", "[", "]"}
    THEN pattern
    ELSE <<"*">> \o pattern \o <<"*">>

Star == <<"*">>

(***************************************************************************)
(* FileResults: filtering and sorting (in place in the code; here each     *)
(* operator returns the new contents of self.data).                        *)
(***************************************************************************)
SelectSeq2(data, keep) ==
    LET F[i \in 0..Len(data)] ==
            IF i = 0 THEN <<>>
            ELSE IF data[i] \in keep THEN Append(F[i - 1], data[i]) ELSE F[i - 1]
    IN  F[Len(data)]

Range(seq) == { seq[i] : i \in 1..Len(seq) }

\* Variant of filter_by_extension that compares the suffix as written.
filter_by_extension_case(data, media_extensions) ==
    IF data = <<>> \/ media_extensions = {} THEN data
    ELSE SelectSeq2(data, { r \in Range(data) :
                               Suffix(r.file.name) \in media_extensions })

filter_by_extension(data, media_extensions) ==
    IF data = <<>> \/ media_extensions = {} THEN data
    ELSE SelectSeq2(data, { r \in Range(data) :
                               LowerSeq(Suffix(r.file.name)) \in media_extensions })

filter_by_pattern(data, pattern) ==
    IF data = <<>> THEN data
    ELSE IF pattern # Star
         THEN SelectSeq2(data, { r \in Range(data) :
                    Fnmatch(LowerSeq(r.file.name), LowerSeq(pattern)) })
    ELSE data

SortKeyName(r) == LowerSeq(r.file.name)

\* a may stay in front of b in the sorted list (list.sort is stable, also
\* with reverse=True).
MayPrecede(a, b, by_mtime, descending) ==
    IF by_mtime
    THEN IF descending THEN a.mtime >= b.mtime ELSE a.mtime <= b.mtime
    ELSE IF descending THEN StrLeq(SortKeyName(b), SortKeyName(a))
         ELSE StrLeq(SortKeyName(a), SortKeyName(b))

RECURSIVE InsertSorted(_, _, _, _)
InsertSorted(sorted, x, by_mtime, descending) ==
    IF sorted = <<>> THEN <<x>>
    ELSE LET n == Len(sorted)
         IN  IF MayPrecede(sorted[n], x, by_mtime, descending)
             THEN Append(sorted, x)
             ELSE Append(InsertSorted(SubSeq(sorted, 1, n - 1), x, by_mtime,
                                      descending), sorted[n])

RECURSIVE StableSort(_, _, _)
StableSort(data, by_mtime, descending) ==
    IF data = <<>> THEN <<>>
    ELSE LET n == Len(data)
         IN  InsertSorted(StableSort(SubSeq(data, 1, n - 1), by_mtime, descending),
                          data[n], by_mtime, descending)

\* Variant of the mtime check that lets every collection through.
SortRaises_never(data, by_mtime) == FALSE

\* sort(by_mtime, reverse) raises ValueError when an entry lacks its mtime.
SortRaises(data, by_mtime) ==
    by_mtime /\ \E i \in 1..Len(data) : data[i].mtime = NoMtime

Reverse(seq) == [i \in 1..Len(seq) |-> seq[Len(seq) + 1 - i]]

\* Variant of sort that sorts in the default direction of the other key
\* and turns the list round.
Sort_by_reversal(data, by_mtime, reverse) ==
    IF SortRaises(data, by_mtime) THEN data
    ELSE IF by_mtime # reverse
    THEN Reverse(StableSort(data, by_mtime, FALSE))
    ELSE StableSort(data, by_mtime, FALSE)

\* Variant of sort that passes reverse on as it is given, for both keys.
Sort_reverse_as_given(data, by_mtime, reverse) ==
    IF SortRaises(data, by_mtime) THEN data
    ELSE StableSort(data, by_mtime, reverse)

\* mtime order is descending by default, filename order ascending: reverse
\* inverts each default.
Sort(data, by_mtime, reverse) ==
    IF SortRaises(data, by_mtime) THEN data
    ELSE StableSort(data, by_mtime, IF by_mtime THEN ~reverse ELSE reverse)

(***************************************************************************)
(* Scanning.  The order in which os.scandir lists a directory, the result  *)
(* of every fd invocation and the order in which the workers of a scan     *)
(* with progress display complete are chosen by the environment, and so   *)
(* is the place where a directory walk meets a PermissionError: a record   *)
(* e = [order, fd, done, fail].                                            *)
(***************************************************************************)
Perms(S) ==
    { s \in [1..Cardinality(S) -> S] :
        \A i, j \in 1..Cardinality(S) : i # j => s[i] # s[j] }

DirEntries(dir) == { f \in present : f.root = dir }

RealDirs == { Target(r) : r \in Roots }

Listings == { o \in [RealDirs -> UNION { Perms(DirEntries(d)) : d \in RealDirs }] :
                \A d \in RealDirs : o[d] \in Perms(DirEntries(d)) }

\* What one fd invocation can end in: FileNotFoundError (no binary at the
\* resolved path), CalledProcessError (non-zero exit), another OSError, or
\* the RuntimeError of get_fd_binary on an unsupported platform.
FdFailures == {"FileNotFoundError", "CalledProcessError", "OSError"}

FdOutcomes == {"ok", "RuntimeError"} \cup FdFailures

\* Variant of the except clause that handles a missing binary only.
FdCaught_missing_only == {"FileNotFoundError"}

\* Variant of the except clause that takes in the RuntimeError of
\* get_fd_binary as well.
FdCaught_with_runtime ==
    {"FileNotFoundError", "CalledProcessError", "OSError", "RuntimeError"}

\* The exceptions scan_search_paths catches around the fd scan
\* (PermissionError is an OSError).
FdCaught == {"FileNotFoundError", "CalledProcessError", "OSError"}

RECURSIVE Flatten(_)
Flatten(seqs) ==
    IF seqs = <<>> THEN <<>> ELSE Head(seqs) \o Flatten(Tail(seqs))

\* The directory tree below "t": t holds a file and the directories t/a
\* and t/b, t/a holds a file and the directory t/a/x.  The search roots r1
\* and r2 have no subdirectories.
SubDirs(dir) ==
    CASE dir = "t" -> {"t/a", "t/b"}
      [] dir = "t/a" -> {"t/a/x"}
      [] OTHER -> {}

RECURSIVE Below(_)
Below(dir) == {dir} \cup UNION { Below(c) : c \in SubDirs(dir) }

Dirs == RealDirs \cup Below("t")

TreeFiles ==
    { [root |-> "t", name |-> <<"p", ".", "m">>],
      [root |-> "t/a", name |-> <<"q", ".", "m">>],
      [root |-> "t/a/x", name |-> <<"r", ".", "m">>],
      [root |-> "t/b", name |-> <<"s", ".", "m">>] }

\* What os.scandir yields for a directory: its files and its
\* subdirectories (an entry with an empty name stands for the directory
\* its root field names).
SubDirEntry(dir) == [root |-> dir, name |-> <<>>]

Entries(dir) == DirEntries(dir) \cup { SubDirEntry(c) : c \in SubDirs(dir) }

\* e.fail[dir] is the number of entries of dir handled before a
\* PermissionError is raised in scan_dir(dir): 0 when os.scandir itself
\* raises, NoError when none is raised.
NoError == -1

NoFail == [d \in Dirs |-> NoError]

\* scan_dir: the entries are handled in the order os.scandir yields them,
\* a file is appended, a directory is walked at once; PermissionError ends
\* the loop over the directory it is raised in, and only that loop.
RECURSIVE scan_dir(_, _, _)
scan_dir(path, with_mtime, e) ==
    LET dir == Target(path)
        listing == e.order[dir]
        handled == IF e.fail[dir] = NoError \/ e.fail[dir] > Len(listing)
                   THEN Len(listing) ELSE e.fail[dir]
    IN  Flatten([i \in 1..handled |->
            IF listing[i].name = <<>>
            THEN scan_dir(listing[i].root, with_mtime, e)
            ELSE << FileResult([root |-> path, name |-> listing[i].name],
                               IF with_mtime THEN mtimes[listing[i]]
                               ELSE NoMtime) >>])

\* Variant of the walk in which PermissionError is caught around the
\* whole walk, so that one unreadable directory leaves it without a result.
scan_path_with_python_all_or_nothing(search_path, with_mtime, e) ==
    IF \E d \in Below(Target(search_path)) : e.fail[d] # NoError
    THEN <<>>
    ELSE scan_dir(search_path, with_mtime, e)

scan_path_with_python(search_path, with_mtime, e) ==
    scan_dir(search_path, with_mtime, e)

\* fd --type f --absolute-path --hidden . <search_path>: the files without
\* modification time; raises when the outcome of the invocation is not "ok".
scan_path_with_fd(search_path, e) ==
    LET listing == e.order[Target(search_path)]
    IN  [i \in 1..Len(listing) |->
            FileResult([root |-> search_path, name |-> listing[i].name], NoMtime)]

\* The first exception executor.map re-raises while its results are
\* collected in the order of search_paths ("ok" when no fd scan failed).
FirstFdError(search_paths, e) ==
    LET bad == { i \in 1..Len(search_paths) : e.fd[search_paths[i]] # "ok" }
    IN  IF bad = {} THEN "ok"
        ELSE e.fd[search_paths[CHOOSE i \in bad : \A j \in bad : i <= j]]

\* get_validated_search_paths: the configured search paths that exist
\* ("nx" does not exist).
PathExists(root) == root \in Roots \cup Below("t")

get_validated_search_paths ==
    LET sp == cfg.search_paths
        F[i \in 0..Len(sp)] ==
            IF i = 0 THEN <<>>
            ELSE IF PathExists(sp[i]) THEN Append(F[i - 1], sp[i]) ELSE F[i - 1]
    IN  F[Len(sp)]

\* The result of an operation: its status ("ok", "exit" for typer.Exit(1),
\* "raise" for an exception that escapes), the collection it returns, the
\* library cache file it leaves behind, and ghost counters of what it did.
Out(status, results, newLib, newCap, rebuilds, scans, fdRoots) ==
    [status |-> status, results |-> results, source |-> results,
     lib |-> newLib, libCap |-> newCap,
     rebuilds |-> rebuilds, scans |-> scans, fdRoots |-> fdRoots,
     nativeRoots |-> {}]

\* The roots handed to scan_path_with_python in the operation.
Native(out, roots) == [out EXCEPT !.nativeRoots = roots]

PythonScanAll(search_paths, with_mtime, e) ==
    Flatten([i \in 1..Len(search_paths) |->
                scan_path_with_python(search_paths[i], with_mtime, e)])

\* Variant of the choice of scanner that forgets the modification times.
UseFd_ignores_mtime(prefer_fd, with_mtime) == prefer_fd

UseFd(prefer_fd, with_mtime) == prefer_fd /\ ~with_mtime

\* Variant of the estimate lookup that leaves allow_rebuild at its default.
EstimateAllowRebuild_default == TRUE

\* get_library_cache_size() calls _load_library_cache(allow_rebuild=False).
EstimateAllowRebuild == FALSE

\* The rebuilds started by the lookup of the size estimate, which a scan
\* with progress display makes when library.json exists: the read of a
\* damaged file starts one when rebuilding is allowed.
EstimateRebuilds(allow_rebuild) ==
    IF lib.exists /\ lib.kind # "ok" /\ allow_rebuild THEN 1 ELSE 0

\* Variant of the fallback that rescans only the roots fd failed for.
FallbackRoots_failed_only(search_paths, e) ==
    { r \in Range(search_paths) : e.fd[r] # "ok" }

\* The roots the except clause hands to scan_path_with_python: it maps
\* the native scanner over the same search_paths as the fd scan.
FallbackRoots(search_paths, e) == Range(search_paths)

scan_search_paths(with_mtime, prefer_fd, show_progress, e) ==
    LET search_paths == get_validated_search_paths
        use_fd == UseFd(prefer_fd, with_mtime)
        err == FirstFdError(search_paths, e)
    IN  IF search_paths = <<>>
        THEN Out("exit", <<>>, lib, libCap, 0, 0, {})
        ELSE IF use_fd
        THEN IF err = "ok"
             THEN Out("ok",
                      Flatten([i \in 1..Len(search_paths) |->
                                  scan_path_with_fd(search_paths[i], e)]),
                      lib, libCap, 0, 1, Range(search_paths))
             ELSE IF err \in FdCaught
             THEN Native(Out("ok", PythonScanAll(search_paths, FALSE, e),
                             lib, libCap, 0, 1, Range(search_paths)),
                         FallbackRoots(search_paths, e))
             ELSE Out("raise", <<>>, lib, libCap, 0, 1, Range(search_paths))
        ELSE IF show_progress
        THEN \* _scan_with_progress_bar collects the workers as they complete
             Native(Out("ok",
                        Flatten([i \in 1..Len(search_paths) |->
                            scan_path_with_python(search_paths[e.done[i]],
                                                  with_mtime, e)]),
                        lib, libCap,
                        EstimateRebuilds(EstimateAllowRebuild),
                        1 + EstimateRebuilds(EstimateAllowRebuild), {}),
                    Range(search_paths))
        ELSE Native(Out("ok", PythonScanAll(search_paths, with_mtime, e),
                        lib, libCap, 0, 1, {}),
                    Range(search_paths))

(***************************************************************************)
(* Library cache.                                                          *)
(***************************************************************************)
NoLib == [exists |-> FALSE, kind |-> "ok", files |-> <<>>, mtime |-> 0]

\* Variant of rebuild_library_cache that writes the scan as it comes.
rebuild_library_cache_unsorted(e) ==
    LET sc == scan_search_paths(TRUE, cfg.prefer_fd, TRUE, e)
        results == sc.results
    IN  IF sc.status # "ok" THEN sc
        ELSE Native(Out("ok", results,
                 [exists |-> TRUE, kind |-> "ok",
                  files |-> [i \in 1..Len(results) |-> AsPosix(results[i])],
                  mtime |-> now],
                 [i \in 1..Len(results) |-> results[i].mtime],
                 1 + sc.rebuilds, sc.scans, sc.fdRoots), sc.nativeRoots)

rebuild_library_cache(e) ==
    LET sc == scan_search_paths(TRUE, cfg.prefer_fd, TRUE, e)
        results == Sort(sc.results, TRUE, FALSE)
    IN  IF sc.status # "ok" THEN sc
        ELSE IF SortRaises(sc.results, TRUE)
        THEN Native(Out("raise", <<>>, lib, libCap, 1 + sc.rebuilds, sc.scans,
                        sc.fdRoots),
                    sc.nativeRoots)
        ELSE Native(Out("ok", results,
                 [exists |-> TRUE, kind |-> "ok",
                  files |-> [i \in 1..Len(results) |-> AsPosix(results[i])],
                  mtime |-> now],
                 [i \in 1..Len(results) |-> results[i].mtime],
                 1 + sc.rebuilds, sc.scans, sc.fdRoots), sc.nativeRoots)

\* Variant of _load_library_cache that ignores allow_rebuild.
load_library_cache_raw_always(allow_rebuild, e) ==
    IF ~lib.exists THEN Out("raise", <<>>, lib, libCap, 0, 0, {})
    ELSE IF lib.kind = "ok"
    THEN Out("ok", FromPaths(lib.files), lib, libCap, 0, 0, {})
    ELSE rebuild_library_cache(e)

\* _load_library_cache: a missing file raises FileNotFoundError, which is
\* not caught; malformed JSON (JSONDecodeError) and a document without
\* "files" (KeyError) count as corrupted.
load_library_cache_raw(allow_rebuild, e) ==
    IF ~lib.exists THEN Out("raise", <<>>, lib, libCap, 0, 0, {})
    ELSE IF lib.kind = "ok"
    THEN Out("ok", FromPaths(lib.files), lib, libCap, 0, 0, {})
    ELSE IF allow_rebuild THEN rebuild_library_cache(e)
    ELSE Out("ok", <<>>, lib, libCap, 0, 0, {})

\* Variants of is_cache_expired with a plausible slip each: the boundary
\* taken as expired, the "never expire" case forgotten, the missing file
\* tested after the "never expire" case.
is_cache_expired_inclusive ==
    IF ~lib.exists THEN TRUE
    ELSE IF cfg.ttl = 0 THEN FALSE
    ELSE now - lib.mtime >= cfg.ttl

is_cache_expired_no_zero ==
    IF ~lib.exists THEN TRUE
    ELSE now - lib.mtime > cfg.ttl

is_cache_expired_zero_first ==
    IF cfg.ttl = 0 THEN FALSE
    ELSE IF ~lib.exists THEN TRUE
    ELSE now - lib.mtime > cfg.ttl

is_cache_expired ==
    IF ~lib.exists THEN TRUE
    ELSE IF cfg.ttl = 0 THEN FALSE
    ELSE now - lib.mtime > cfg.ttl

load_library_cache(e) ==
    IF is_cache_expired THEN rebuild_library_cache(e)
    ELSE load_library_cache_raw(TRUE, e)

\* Variant of get_library_cache_size that leaves allow_rebuild at its
\* default.
get_library_cache_size_default(e) == load_library_cache_raw(TRUE, e)

get_library_cache_size(e) == load_library_cache_raw(FALSE, e)

(***************************************************************************)
(* Environment choices of one operation.                                   *)
(***************************************************************************)
AllOk == [r \in Roots |-> "ok"]

DoneOrders == Perms(1..Len(get_validated_search_paths))

InOrder == [i \in 1..Len(get_validated_search_paths) |-> i]

\* Choices of an operation that scans natively with progress display.
RebuildEnvs ==
    { [order |-> o, fd |-> AllOk, done |-> d, fail |-> NoFail] :
        o \in Listings, d \in DoneOrders }

\* Every invocation of one scan runs the same binary: an unsupported
\* platform (RuntimeError of get_fd_binary), a missing binary
\* (FileNotFoundError) and a binary that cannot be started (OSError) hit
\* every root; a non-zero exit (CalledProcessError) hits single roots.
FdChoices ==
    [Range(get_validated_search_paths) -> {"ok", "CalledProcessError"}]
        \cup { [r \in Range(get_validated_search_paths) |-> x] :
                 x \in {"RuntimeError", "FileNotFoundError", "OSError"} }

\* Choices of an operation that scans without progress display.
ScanEnvs(use_fd) ==
    { [order |-> o, fd |-> f, done |-> InOrder, fail |-> NoFail] :
        o \in Listings,
        f \in IF use_fd THEN FdChoices ELSE {AllOk} }

\* Choices of an operation that does not scan.
NoScanEnv ==
    [order |-> CHOOSE o \in Listings : TRUE, fd |-> AllOk, done |-> InOrder,
     fail |-> NoFail]

\* Choices of load_library_cache: it scans when it rebuilds.
LoadEnvs ==
    IF is_cache_expired \/ lib.kind # "ok" THEN RebuildEnvs ELSE {NoScanEnv}

(***************************************************************************)
(* The record of the operation that has just completed; it is cleared when *)
(* the environment moves on.  pre is the library cache file before the     *)
(* operation, at its age preAge.                                           *)
(***************************************************************************)
Record(op, arg, out) ==
    [op |-> op, arg |-> arg, status |-> out.status, results |-> out.results,
     source |-> out.source, rebuilds |-> out.rebuilds, scans |-> out.scans,
     fdRoots |-> out.fdRoots, nativeRoots |-> out.nativeRoots,
     pre |-> lib, preAge |-> now - lib.mtime]

NoRecord ==
    [op |-> "none", arg |-> 0, status |-> "ok", results |-> <<>>,
     source |-> <<>>, rebuilds |-> 0, scans |-> 0, fdRoots |-> {},
     nativeRoots |-> {}, pre |-> NoLib, preAge |-> 0]

(***************************************************************************)
(* Actions of the environment: time passes, files are written and removed, *)
(* the library cache file is damaged (a torn write or an edit).            *)
(***************************************************************************)
Tick ==
    /\ now < MaxTime
    /\ now' = now + 1
    /\ last' = NoRecord
    /\ UNCHANGED <<present, mtimes, lib, libCap, search, hist, cfg, run>>

Touch(f) ==
    /\ present' = present \cup {f}
    /\ mtimes' = [mtimes EXCEPT ![f] = now]
    /\ <<present', mtimes'>> # <<present, mtimes>>
    /\ last' = NoRecord
    /\ UNCHANGED <<now, lib, libCap, search, hist, cfg, run>>

Remove(f) ==
    /\ f \in present
    /\ present' = present \ {f}
    /\ mtimes' = [mtimes EXCEPT ![f] = 0]
    /\ last' = NoRecord
    /\ UNCHANGED <<now, lib, libCap, search, hist, cfg, run>>

CorruptKinds == {"malformed", "nofiles"}

Corrupt(kind) ==
    /\ lib.exists
    /\ lib.kind = "ok"
    /\ lib' = [exists |-> TRUE, kind |-> kind, files |-> <<>>, mtime |-> now]
    /\ libCap' = <<>>
    /\ last' = NoRecord
    /\ UNCHANGED <<now, present, mtimes, search, hist, cfg, run>>

(***************************************************************************)
(* Library cache operations.                                               *)
(***************************************************************************)
Apply(op, arg, out) ==
    /\ last' = Record(op, arg, out)
    /\ lib' = out.lib
    /\ libCap' = out.libCap
    /\ UNCHANGED <<now, present, mtimes, search, hist, cfg, run>>

LoadLibraryCache ==
    \E e \in LoadEnvs : Apply("load", 0, load_library_cache(e))

GetLibraryCacheSize ==
    Apply("size", 0, get_library_cache_size(NoScanEnv))

\* mf cache rebuild
CacheRebuild ==
    \E e \in RebuildEnvs : Apply("rebuild", 0, rebuild_library_cache(e))

\* mf cache clear: unlink() raises FileNotFoundError when there is no file.
CacheClear ==
    Apply("clear", 0,
          IF lib.exists THEN Out("ok", <<>>, NoLib, <<>>, 0, 0, {})
          ELSE Out("raise", <<>>, lib, libCap, 0, 0, {}))

(***************************************************************************)
(* Queries.                                                                *)
(***************************************************************************)
Filtered(src, results) ==
    [src EXCEPT !.results = results, !.source = src.results]

ExtensionFilter == IF cfg.match_extensions THEN cfg.media_extensions ELSE {}

find_query_execute(pattern, e) ==
    LET src == IF cfg.cache_library THEN load_library_cache(e)
               ELSE scan_search_paths(FALSE, cfg.prefer_fd, FALSE, e)
        byExt == filter_by_extension(src.results, ExtensionFilter)
        byPat == filter_by_pattern(byExt, normalize_pattern(pattern))
    IN  IF src.status # "ok" THEN src
        ELSE Filtered(src, Sort(byPat, FALSE, FALSE))

\* results[:n]: a negative n counts from the end.
Slice(data, n) ==
    LET stop == IF n >= 0 THEN (IF n < Len(data) THEN n ELSE Len(data))
                ELSE (IF Len(data) + n > 0 THEN Len(data) + n ELSE 0)
    IN  SubSeq(data, 1, stop)

\* Variant of NewQuery.execute that filters by media_extensions whether or
\* not match_extensions is set.
new_query_execute_media_only(n, e) ==
    LET src == IF cfg.cache_library THEN load_library_cache(e)
               ELSE scan_search_paths(TRUE, cfg.prefer_fd, FALSE, e)
        sorted == IF cfg.cache_library THEN src.results
                  ELSE Sort(src.results, TRUE, FALSE)
        byExt == filter_by_extension(sorted, cfg.media_extensions)
        byPat == filter_by_pattern(byExt, Star)
    IN  IF src.status # "ok" THEN src
        ELSE IF ~cfg.cache_library /\ SortRaises(src.results, TRUE)
        THEN [src EXCEPT !.status = "raise", !.results = <<>>]
        ELSE Filtered(src, Slice(byPat, n))

new_query_execute(n, e) ==
    LET src == IF cfg.cache_library THEN load_library_cache(e)
               ELSE scan_search_paths(TRUE, cfg.prefer_fd, FALSE, e)
        sorted == IF cfg.cache_library THEN src.results
                  ELSE Sort(src.results, TRUE, FALSE)
        byExt == filter_by_extension(sorted, ExtensionFilter)
        byPat == filter_by_pattern(byExt, Star)
    IN  IF src.status # "ok" THEN src
        ELSE IF ~cfg.cache_library /\ SortRaises(src.results, TRUE)
        THEN [src EXCEPT !.status = "raise", !.results = <<>>]
        ELSE Filtered(src, Slice(byPat, n))

QueryEnvs(with_mtime) ==
    IF cfg.cache_library THEN LoadEnvs
    ELSE ScanEnvs(UseFd(cfg.prefer_fd, with_mtime))

Patterns ==
    { <<"*">>, <<"b">>, <<"A", "?", ".", "m">>, <<"*", ".", "M">>, <<"c", "*">> }

\* A query leaves the search-result cache alone; hist notes its result
\* when results have been saved before.
Query(op, arg, out) ==
    /\ last' = Record(op, arg, out)
    /\ lib' = out.lib
    /\ libCap' = out.libCap
    /\ hist' = IF search.exists /\ out.status = "ok"
               THEN [hist EXCEPT !.later = TRUE, !.laterResults = out.results]
               ELSE hist
    /\ UNCHANGED <<now, present, mtimes, search, cfg, run>>

FindQueryExecute ==
    \E p \in Patterns : \E e \in QueryEnvs(FALSE) :
        Query("find", p, find_query_execute(p, e))

NewQueryExecute ==
    \E n \in 1..MaxN : \E e \in QueryEnvs(TRUE) :
        Query("new", n, new_query_execute(n, e))

\* scan_search_paths called directly, prefer_fd being given or read from
\* the configuration.
ScanSearchPaths ==
    \E with_mtime \in BOOLEAN, prefer_fd \in BOOLEAN, show_progress \in BOOLEAN :
        \E e \in IF UseFd(prefer_fd, with_mtime) THEN ScanEnvs(TRUE)
                  ELSE IF show_progress THEN RebuildEnvs ELSE ScanEnvs(FALSE) :
            Apply("scan",
                  [with_mtime |-> with_mtime, prefer_fd |-> prefer_fd,
                   show_progress |-> show_progress, fd |-> e.fd],
                  scan_search_paths(with_mtime, prefer_fd, show_progress, e))

(***************************************************************************)
(* Search-result cache.                                                    *)
(***************************************************************************)
\* The document has no "last_played_index" key.
NoIndex == -1

NoSearch ==
    [exists |-> FALSE, pattern |-> <<>>, results |-> <<>>, timestamp |-> 0,
     last_played_index |-> NoIndex]

\* hist.played is the place in the saved list of the entry handed out last
\* for playing (0: none since the save), hist.playedBefore tells that an
\* entry of an earlier list was handed out.
NoHist ==
    [given |-> <<>>, later |-> FALSE, laterResults |-> <<>>,
     played |-> 0, playedBefore |-> FALSE]

\* The ghost record after a save of results.
Saved(results) ==
    [given |-> results, later |-> FALSE, laterResults |-> <<>>,
     played |-> 0, playedBefore |-> hist.playedBefore \/ hist.played > 0]

\* console.print_and_raise prints the message and raises typer.Exit(1).
print_and_raise == "exit"

\* Variant of save_search_results that updates the document it finds.
save_search_results_update(pattern, results) ==
    [exists |-> TRUE, pattern |-> pattern,
     results |-> [i \in 1..Len(results) |-> Str(results[i])],
     timestamp |-> now,
     last_played_index |-> search.last_played_index]

\* save_search_results writes a new document: pattern, timestamp, results.
save_search_results(pattern, results) ==
    [exists |-> TRUE, pattern |-> pattern,
     results |-> [i \in 1..Len(results) |-> Str(results[i])],
     timestamp |-> now,
     last_played_index |-> NoIndex]

\* load_search_results: the status and the collection read back.
load_search_results ==
    IF search.exists
    THEN [status |-> "ok", results |-> FromPaths(search.results)]
    ELSE [status |-> print_and_raise, results |-> <<>>]

\* data[i] for a Python index i: a negative index counts from the end.
IndexInRange(data, i) == -Len(data) <= i /\ i < Len(data)

PyItem(data, i) == IF i >= 0 THEN data[i + 1] ELSE data[Len(data) + i + 1]

Got(status, results) == Out(status, results, lib, libCap, 0, 0, {})

\* Variant of get_result_by_index that takes the index as zero-based.
get_result_by_index_zero_based(index) ==
    LET loaded == load_search_results
    IN  IF loaded.status # "ok" THEN Got(loaded.status, <<>>)
        ELSE IF ~IndexInRange(loaded.results, index) THEN Got("exit", <<>>)
        ELSE IF ~Exists(PyItem(loaded.results, index).file)
        THEN Got(print_and_raise, <<>>)
        ELSE Got("ok", <<PyItem(loaded.results, index)>>)

get_result_by_index(index) ==
    LET loaded == load_search_results
    IN  IF loaded.status # "ok" THEN Got(loaded.status, <<>>)
        ELSE IF ~IndexInRange(loaded.results, index - 1) THEN Got("exit", <<>>)
        ELSE IF ~Exists(PyItem(loaded.results, index - 1).file)
        THEN Got(print_and_raise, <<>>)
        ELSE Got("ok", <<PyItem(loaded.results, index - 1)>>)

(***************************************************************************)
(* The commands mf find and mf new: the query, then either typer.Exit()    *)
(* (exit code 0, status "exit0") when it returned nothing, or the save of  *)
(* its result.                                                             *)
(***************************************************************************)
\* Variant of the commands that saves the result before looking at it.
save_unless_empty_late(q, pattern) ==
    IF q.status # "ok" THEN [status |-> q.status, search |-> search]
    ELSE IF q.results = <<>>
    THEN [status |-> "exit0", search |-> save_search_results(pattern, q.results)]
    ELSE [status |-> "ok", search |-> save_search_results(pattern, q.results)]

\* if not results: raise typer.Exit(); save_search_results(pattern, results)
save_unless_empty(q, pattern) ==
    IF q.status # "ok" THEN [status |-> q.status, search |-> search]
    ELSE IF q.results = <<>> THEN [status |-> "exit0", search |-> search]
    ELSE [status |-> "ok", search |-> save_search_results(pattern, q.results)]

Command(op, input, q, pattern) ==
    LET done == save_unless_empty(q, pattern)
    IN  /\ last' = Record(op, [input |-> input, before |-> search],
                          [q EXCEPT !.status = done.status])
        /\ lib' = q.lib
        /\ libCap' = q.libCap
        /\ search' = done.search
        /\ hist' = IF done.status = "ok"
                   THEN Saved(q.results)
                   ELSE IF search.exists /\ q.status = "ok"
                   THEN [hist EXCEPT !.later = TRUE, !.laterResults = q.results]
                   ELSE hist
        /\ UNCHANGED <<now, present, mtimes, cfg, run>>

\* mf find <pattern>
find ==
    \E p \in Patterns : \E e \in QueryEnvs(FALSE) :
        Command("mf find", p, find_query_execute(p, e), normalize_pattern(p))

\* mf new <n>; the pattern saved is "<n> latest additions".
new ==
    \E n \in 1..MaxN : \E e \in QueryEnvs(TRUE) :
        Command("mf new", n, new_query_execute(n, e),
                <<ToString(n), " latest additions">>)

\* The find and new commands save the result of their query when it is not
\* empty.
SaveSearchResults ==
    /\ last.op \in {"find", "new"}
    /\ last.status = "ok"
    /\ last.results # <<>>
    /\ search' = save_search_results(last.arg, last.results)
    /\ hist' = Saved(last.results)
    /\ last' = Record("save", 0, Got("ok", <<>>))
    /\ UNCHANGED <<now, present, mtimes, lib, libCap, cfg, run>>

GetResultByIndex ==
    \E index \in -MaxIndex..MaxIndex :
        /\ last' = Record("get", index, get_result_by_index(index))
        /\ UNCHANGED <<now, present, mtimes, lib, libCap, search, hist, cfg, run>>

(***************************************************************************)
(* Playing: get_next, save_last_played and the targets "next" and <index>  *)
(* of the play command.                                                    *)
(***************************************************************************)
\* list.index(x): the place (from 0) of the first element equal to x.
Index(data, x) ==
    CHOOSE i \in 0..(Len(data) - 1) :
        data[i + 1] = x /\ \A j \in 0..(i - 1) : data[j + 1] # x

\* get_next: the entry after the last played one; open() raises
\* FileNotFoundError without a document, results[...] ends in print_error
\* after the last entry.
get_next ==
    LET index_last_played ==
            IF search.last_played_index = NoIndex THEN -1
            ELSE search.last_played_index
    IN  IF ~search.exists THEN Got("raise", <<>>)
        ELSE IF ~IndexInRange(search.results, index_last_played + 1)
        THEN Got(print_and_raise, <<>>)
        ELSE Got("ok", <<FromString(PyItem(search.results,
                                           index_last_played + 1))>>)

\* save_last_played: the document is read, the index of str(result) in
\* its results is stored under "last_played_index", the document is
\* written back; list.index raises ValueError for a string that is not
\* in the list.
save_last_played(result) ==
    IF ~search.exists THEN [status |-> "raise", search |-> search]
    ELSE IF \A i \in 1..Len(search.results) : search.results[i] # Str(result)
    THEN [status |-> "raise", search |-> search]
    ELSE [status |-> "ok",
          search |-> [search EXCEPT
                         !.last_played_index = Index(search.results, Str(result))]]

\* The place (from 1) in the saved list an entry is taken from by a Python
\* index.
Place(data, i) == IF i >= 0 THEN i + 1 ELSE Len(data) + i + 1

\* file_to_play = ...; save_last_played(file_to_play).  place is the
\* place in the saved list the entry was taken from (ghost).
Play(op, arg, got, place) ==
    LET saved == IF got.status = "ok" THEN save_last_played(got.results[1])
                 ELSE [status |-> got.status, search |-> search]
    IN  /\ last' = Record(op, [input |-> arg, before |-> search,
                               played |-> hist.played],
                          [got EXCEPT !.status = saved.status])
        /\ search' = saved.search
        /\ hist' = IF got.status = "ok"
                   THEN [hist EXCEPT !.played = place]
                   ELSE hist
        /\ UNCHANGED <<now, present, mtimes, lib, libCap, cfg, run>>

\* mf play next
PlayNext ==
    Play("play next", 0, get_next,
         Place(search.results,
               IF search.last_played_index = NoIndex THEN 0
               ELSE search.last_played_index + 1))

\* mf play <index>
PlayIndex ==
    \E index \in 1..MaxIndex :
        Play("play index", index, get_result_by_index(index),
             Place(search.results, index - 1))

(***************************************************************************)
(* Configurations.                                                         *)
(***************************************************************************)
MediaM == { <<".", "m">> }

BaseCfg ==
    [search_paths |-> <<"r1", "r2">>, ttl |-> 0, cache_library |-> TRUE,
     prefer_fd |-> TRUE, match_extensions |-> TRUE, media_extensions |-> MediaM]

SearchPathChoices == { <<"r1", "r2">>, <<"nx", "lnk", "r2">> }

InitCommon(files) ==
    /\ now = 0
    /\ present = files
    /\ mtimes = [f \in RealFiles |-> 0]
    /\ lib = NoLib
    /\ libCap = <<>>
    /\ search = NoSearch
    /\ hist = NoHist
    /\ run = NoRun
    /\ last = NoRecord

(***************************************************************************)
(* SpecLib: the library cache under passing time, file changes, damage     *)
(* and every library-cache operation.                                      *)
(***************************************************************************)
LibCfgs ==
    { [BaseCfg EXCEPT !.ttl = t, !.search_paths = sp] :
        t \in 0..MaxTTL, sp \in SearchPathChoices }

\* The files of this specification; only the second one changes.
LibOld == [root |-> "r1", name |-> <<"A", "b", ".", "m">>]

LibNew == [root |-> "r2", name |-> <<"c", ".", "t">>]

LibFiles == {LibNew}

InitLib == InitCommon({LibOld, LibNew}) /\ cfg \in LibCfgs

NextLib ==
    \/ Tick
    \/ \E f \in LibFiles : Touch(f)
    \/ \E f \in LibFiles : Remove(f)
    \/ \E k \in CorruptKinds : Corrupt(k)
    \/ LoadLibraryCache
    \/ GetLibraryCacheSize
    \/ CacheRebuild
    \/ CacheClear

SpecLib == InitLib /\ [][NextLib]_vars

(***************************************************************************)
(* SpecQuery: find and new queries over changing files, with and without   *)
(* the library cache.                                                      *)
(***************************************************************************)
ExtensionChoices == { <<TRUE, MediaM>>, <<TRUE, {}>>, <<FALSE, MediaM>> }

QueryCfgs ==
    { [BaseCfg EXCEPT !.search_paths = <<"nx", "lnk", "r2">>, !.ttl = MaxTTL,
                      !.cache_library = c, !.prefer_fd = p,
                      !.match_extensions = x[1], !.media_extensions = x[2]] :
        <<c, p>> \in { <<TRUE, TRUE>>, <<FALSE, TRUE>>, <<FALSE, FALSE>> },
        x \in ExtensionChoices }

\* The file that is rewritten and the file that is deleted.
Rewritten == [root |-> "r2", name |-> <<"a", "b", ".", "m">>]

Deleted == [root |-> "r1", name |-> <<"b", ".", "M">>]

QueryFiles == {Rewritten, Deleted}

InitQuery == InitCommon(RealFiles) /\ cfg \in QueryCfgs

NextQuery ==
    \/ Tick
    \/ Touch(Rewritten)
    \/ Remove(Deleted)
    \/ FindQueryExecute
    \/ NewQueryExecute

SpecQuery == InitQuery /\ [][NextQuery]_vars

(***************************************************************************)
(* SpecSearch: results are saved and looked up by index while further      *)
(* queries run and files disappear.                                        *)
(***************************************************************************)
SearchCfg ==
    [BaseCfg EXCEPT !.search_paths = <<"lnk", "r2">>, !.cache_library = FALSE,
                    !.prefer_fd = FALSE]

InitSearch == InitCommon(RealFiles) /\ cfg = SearchCfg

NextSearch ==
    \/ \E f \in QueryFiles : Remove(f)
    \/ FindQueryExecute
    \/ NewQueryExecute
    \/ SaveSearchResults
    \/ GetResultByIndex

SpecSearch == InitSearch /\ [][NextSearch]_vars

(***************************************************************************)
(* SpecPlay: find and new save result lists, entries are played by index   *)
(* and one after the other.  With the search paths lnk and r1 every file   *)
(* of r1 is found twice, and both entries are saved under the resolved     *)
(* path.                                                                   *)
(***************************************************************************)
PlayCfgs ==
    { [BaseCfg EXCEPT !.search_paths = sp, !.cache_library = FALSE,
                      !.prefer_fd = FALSE] :
        sp \in { <<"lnk", "r2">>, <<"lnk", "r1">> } }

InitPlay == InitCommon(RealFiles) /\ cfg \in PlayCfgs

NextPlay ==
    \/ find
    \/ new
    \/ PlayNext
    \/ PlayIndex

SpecPlay == InitPlay /\ [][NextPlay]_vars

(***************************************************************************)
(* SpecFrame: the operations that read or write the cache files, over a    *)
(* library cache that is missing, well-formed or damaged.                  *)
(***************************************************************************)
FrameCfgs ==
    { [BaseCfg EXCEPT !.search_paths = <<"lnk", "r2">>, !.prefer_fd = FALSE,
                      !.cache_library = c] : c \in BOOLEAN }

FrameFiles == { [root |-> "r1", name |-> <<"A", "b", ".", "m">>] }

InitFrame == InitCommon(FrameFiles) /\ cfg \in FrameCfgs

NextFrame ==
    \/ \E k \in CorruptKinds : Corrupt(k)
    \/ CacheRebuild
    \/ GetLibraryCacheSize
    \/ FindQueryExecute
    \/ NewQueryExecute
    \/ SaveSearchResults
    \/ GetResultByIndex
    \/ PlayNext

SpecFrame == InitFrame /\ [][NextFrame]_vars

(***************************************************************************)
(* SpecScan: scan_search_paths under every outcome of the fd scanner.      *)
(***************************************************************************)
ScanCfgs == { [BaseCfg EXCEPT !.search_paths = sp] : sp \in SearchPathChoices }

InitScan == InitCommon(RealFiles) /\ cfg \in ScanCfgs

NextScan ==
    \/ Tick
    \/ Touch(Rewritten)
    \/ Remove(Deleted)
    \/ ScanSearchPaths

SpecScan == InitScan /\ [][NextScan]_vars

(***************************************************************************)
(* SpecCli: the commands mf find and mf new over a library with and        *)
(* without media files, with and without the library cache.                *)
(***************************************************************************)
CliCfgs ==
    { [BaseCfg EXCEPT !.search_paths = <<"lnk", "r2">>, !.prefer_fd = FALSE,
                      !.cache_library = c] : c \in BOOLEAN }

\* A library without a media file.
NoMedia == { [root |-> "r2", name |-> <<"c", ".", "t">>] }

InitCli ==
    /\ present \in {RealFiles, NoMedia}
    /\ InitCommon(present)
    /\ cfg \in CliCfgs

NextCli ==
    \/ Tick
    \/ find
    \/ new

SpecCli == InitCli /\ [][NextCli]_vars

(***************************************************************************)
(* SpecNew: NewQuery and mf new with any integer n.  NewQuery.__init__     *)
(* stores n as given and the argument of the command is a plain int.       *)
(***************************************************************************)
NewCounts == (0 - MaxN)..MaxN

NewQueryExecuteInt ==
    \E n \in NewCounts : \E e \in QueryEnvs(TRUE) :
        Query("new", n, new_query_execute(n, e))

newInt ==
    \E n \in NewCounts : \E e \in QueryEnvs(TRUE) :
        Command("mf new", n, new_query_execute(n, e),
                <<ToString(n), " latest additions">>)

NextNew ==
    \/ Tick
    \/ NewQueryExecuteInt
    \/ newInt

SpecNew == InitCli /\ [][NextNew]_vars

(***************************************************************************)
(* SpecNoPaths: scans, queries and rebuilds under configurations without   *)
(* a valid search path, with and without a snapshot that an earlier run    *)
(* left behind.                                                            *)
(***************************************************************************)
NoPathsCfgs ==
    { [BaseCfg EXCEPT !.search_paths = sp, !.cache_library = c, !.ttl = t,
                      !.prefer_fd = p] :
        sp \in { <<"nx">>, <<>> }, c \in BOOLEAN, t \in 0..MaxTTL,
        p \in BOOLEAN }

\* The snapshot an earlier rebuild wrote at time 0.
EarlierSnapshot ==
    [exists |-> TRUE, kind |-> "ok", mtime |-> 0,
     files |-> << [root |-> "lnk", name |-> <<"A", "b", ".", "m">>],
                  [root |-> "r2", name |-> <<"c", ".", "t">>] >>]

InitNoPaths ==
    /\ now = 0
    /\ present = RealFiles
    /\ mtimes = [f \in RealFiles |-> 0]
    /\ \/ lib = NoLib /\ libCap = <<>>
       \/ lib = EarlierSnapshot /\ libCap = <<0, 0>>
    /\ search = NoSearch
    /\ hist = NoHist
    /\ run = NoRun
    /\ last = NoRecord
    /\ cfg \in NoPathsCfgs

NextNoPaths ==
    \/ Tick
    \/ \E k \in CorruptKinds : Corrupt(k)
    \/ FindQueryExecute
    \/ NewQueryExecute
    \/ LoadLibraryCache
    \/ CacheRebuild
    \/ ScanSearchPaths

SpecNoPaths == InitNoPaths /\ [][NextNoPaths]_vars

(***************************************************************************)
(* SpecColl: the in-place methods of FileResults applied, in any order, to *)
(* a collection of at most MaxLen entries; last.results is self.data,      *)
(* last.source is self.data before the call.                               *)
(***************************************************************************)
CollTimes == {NoMtime, 0, 1}

\* The files the entries name: two with one lower-cased name, one of
\* another extension.
CollFiles ==
    { [root |-> "r1", name |-> <<"A", "b", ".", "m">>],
      [root |-> "r2", name |-> <<"a", "b", ".", "m">>],
      [root |-> "r2", name |-> <<"c", ".", "t">>] }

CollEntries == { FileResult(f, t) : f \in CollFiles, t \in CollTimes }

RECURSIVE SeqsUpTo(_, _)
SeqsUpTo(S, n) ==
    IF n = 0 THEN { <<>> }
    ELSE LET shorter == SeqsUpTo(S, n - 1)
         IN  shorter \cup { Append(q, x) : q \in shorter, x \in S }

Collections == SeqsUpTo(CollEntries, MaxLen)

ExtensionArgs == { {}, MediaM, { <<".", "t">>, <<".", "m">> } }

Method(op, arg, status, data) ==
    /\ last' = Record(op, arg, Filtered(Got(status, last.results), data))
    /\ UNCHANGED <<now, present, mtimes, lib, libCap, search, hist, cfg, run>>

FilterByExtension ==
    \E x \in ExtensionArgs :
        Method("filter_by_extension", x, "ok",
               filter_by_extension(last.results, x))

FilterByPattern ==
    \E p \in { normalize_pattern(q) : q \in Patterns } :
        Method("filter_by_pattern", p, "ok",
               filter_by_pattern(last.results, p))

SortCollection ==
    \E by_mtime \in BOOLEAN, reverse \in BOOLEAN :
        Method("sort", [by_mtime |-> by_mtime, reverse |-> reverse],
               IF SortRaises(last.results, by_mtime) THEN "raise" ELSE "ok",
               Sort(last.results, by_mtime, reverse))

InitColl ==
    /\ now = 0
    /\ present = RealFiles
    /\ mtimes = [f \in RealFiles |-> 0]
    /\ lib = NoLib
    /\ libCap = <<>>
    /\ search = NoSearch
    /\ hist = NoHist
    /\ run = NoRun
    /\ cfg = BaseCfg
    /\ \E data \in Collections : last = [NoRecord EXCEPT !.results = data]

NextColl ==
    \/ FilterByExtension
    \/ FilterByPattern
    \/ SortCollection

SpecColl == InitColl /\ [][NextColl]_vars

(***************************************************************************)
(* The native walk of one search path over the directory tree below "t",   *)
(* with directories that cannot be read.                                   *)
(***************************************************************************)
\* Every order in which the directories of D can be listed.
RECURSIVE Orders(_)
Orders(D) ==
    IF D = {} THEN { <<>> }
    ELSE LET d == CHOOSE x \in D : TRUE
         IN  { (d :> p) @@ o : p \in Perms(Entries(d)), o \in Orders(D \ {d}) }

\* Where PermissionError is raised in the directories of D: nowhere, by
\* os.scandir, or after some of the entries.
RECURSIVE Failures(_)
Failures(D) ==
    IF D = {} THEN { NoFail }
    ELSE LET d == CHOOSE x \in D : TRUE
         IN  { [f EXCEPT ![d] = k] :
                 k \in {NoError} \cup 0..(Cardinality(Entries(d)) - 1),
                 f \in Failures(D \ {d}) }

WalkEnvs(search_path) ==
    { [order |-> o, fd |-> AllOk, done |-> InOrder, fail |-> f] :
        o \in Orders(Below(search_path)), f \in Failures(Below(search_path)) }

ScanPathWithPython ==
    \E search_path \in {"t", "t/a"}, with_mtime \in BOOLEAN :
        \E e \in WalkEnvs(search_path) :
            /\ last' = Record("walk",
                              [search_path |-> search_path,
                               with_mtime |-> with_mtime,
                               order |-> e.order, fail |-> e.fail],
                              Got("ok", scan_path_with_python(search_path,
                                                              with_mtime, e)))
            /\ UNCHANGED <<now, present, mtimes, lib, libCap, search, hist, cfg, run>>

InitWalk ==
    /\ now = 0
    /\ present = TreeFiles
    /\ mtimes = [f \in TreeFiles |-> IF f.root = "t/a" THEN 1 ELSE 0]
    /\ lib = NoLib
    /\ libCap = <<>>
    /\ search = NoSearch
    /\ hist = NoHist
    /\ run = NoRun
    /\ cfg = BaseCfg
    /\ last = NoRecord

NextWalk == ScanPathWithPython

SpecWalk == InitWalk /\ [][NextWalk]_vars

(***************************************************************************)
(* SpecNested: scans, queries and rebuilds with search paths in the tree   *)
(* below "t": one inside the other, side by side, or the same path twice.  *)
(***************************************************************************)
NestedCfgs ==
    { [BaseCfg EXCEPT !.search_paths = sp, !.cache_library = FALSE,
                      !.prefer_fd = FALSE] :
        sp \in { <<"t", "t/a">>, <<"t/b", "t/a">>, <<"t/b", "t/b">> } }

\* Choices of an operation that scans the tree natively.
TreeEnvs ==
    { [order |-> o, fd |-> AllOk, done |-> InOrder, fail |-> NoFail] :
        o \in Orders(Below("t")) }

ScanSearchPathsTree ==
    \E with_mtime \in BOOLEAN : \E e \in TreeEnvs :
        Apply("scan",
              [with_mtime |-> with_mtime, prefer_fd |-> FALSE,
               show_progress |-> FALSE, fd |-> e.fd],
              scan_search_paths(with_mtime, FALSE, FALSE, e))

FindQueryExecuteTree ==
    \E p \in Patterns : \E e \in TreeEnvs :
        Query("find", p, find_query_execute(p, e))

CacheRebuildTree ==
    \E e \in TreeEnvs : Apply("rebuild", 0, rebuild_library_cache(e))

InitNested ==
    /\ now = 0
    /\ present = TreeFiles
    /\ mtimes = [f \in TreeFiles |-> IF f.root = "t/a" THEN 1 ELSE 0]
    /\ lib = NoLib
    /\ libCap = <<>>
    /\ search = NoSearch
    /\ hist = NoHist
    /\ run = NoRun
    /\ cfg \in NestedCfgs
    /\ last = NoRecord

NextNested ==
    \/ ScanSearchPathsTree
    \/ FindQueryExecuteTree
    \/ CacheRebuildTree

SpecNested == InitNested /\ [][NextNested]_vars

(***************************************************************************)
(* scan_search_paths(with_mtime=True, show_progress=True) step by step:    *)
(* one worker per search path walks its root and calls progress_callback   *)
(* for every file, and _scan_with_progress_bar polls the futures.  The     *)
(* record run holds                                                        *)
(*   paths, order      the search paths and the listing of every root      *)
(*   wpc, found, tmp   per worker: position, number of files appended to   *)
(*                     its result, the value files_found[0] += 1 has read  *)
(*   lock              holder of progress_lock (0: free, i: worker i)      *)
(*   files_found       files_found[0]                                      *)
(*   estimated_total   NoEstimate for None                                 *)
(*   cpc, idx          position of the coordinator, place in the for loop  *)
(*   remaining, done_futures, path_results  (futures by worker number)     *)
(*   bar               the progress task: [shown, completed, total]        *)
(*   last_update_count, update_threshold                                   *)
(*   updated           ghost: the count of the update made by the last     *)
(*                     step, NoEstimate when it made none                  *)
(***************************************************************************)
NoEstimate == -1

\* The files of a root with many files: f, ff, fff, ...
BigFile(i) == [root |-> "r1", name |-> [j \in 1..i |-> "f"]]

BigFiles == { BigFile(i) : i \in 1..MaxBig }

\* The order in which a root is listed has no bearing on the steps below:
\* every root is listed in one order.
AListing(dir) ==
    IF DirEntries(dir) \subseteq RealFiles
    THEN CHOOSE p \in Perms(DirEntries(dir)) : TRUE
    ELSE [i \in 1..Cardinality(DirEntries(dir)) |-> BigFile(i)]

Workers == 1..Len(run.paths)

WorkerListing(i) == run.order[Target(run.paths[i])]

\* What future.result() of worker i is once the worker is done.
WorkerResult(i) ==
    [k \in 1..run.found[i] |->
        FileResult([root |-> run.paths[i], name |-> WorkerListing(i)[k].name],
                   mtimes[WorkerListing(i)[k]])]

\* Variant of the lock that lets everyone in.
LockFree_always == TRUE

\* with progress_lock: entered when nobody holds the lock.
LockFree == run.lock = 0

\* Variant of the loops that returns as soon as the waiting phase is over.
LoopHead_no_wait(loop, remaining) ==
    IF loop = "p1" /\ remaining # <<>> THEN "p1_for"
    ELSE IF loop = "p1" THEN "p2"
    ELSE IF loop = "bar" THEN "final"
    ELSE "return"

\* The while conditions of the three loops: where the coordinator goes
\* from the head of a loop.
LoopHead(loop, remaining) ==
    IF remaining # <<>> THEN
        (IF loop = "p1" THEN "p1_for"
         ELSE IF loop = "bar" THEN "bar_for" ELSE "silent_for")
    ELSE
        (IF loop = "p1" THEN "p2"
         ELSE IF loop = "bar" THEN "final" ELSE "return")

\* Variant of the raised estimate without the buffer.
NewEstimate_no_buffer(current_count) == current_count

\* new_estimate = int(current_count * 1.1)
NewEstimate(current_count) == (current_count * 11) \div 10

\* update_threshold = max(1, estimated_total // 20)
UpdateThreshold(estimated_total) ==
    IF estimated_total \div 20 > 1 THEN estimated_total \div 20 ELSE 1

\* scan_search_paths up to the call of _scan_with_progress_bar: the
\* estimate is read from the library cache, the workers are submitted.
StartScan ==
    /\ run = NoRun
    /\ LET search_paths == get_validated_search_paths
           size == get_library_cache_size(NoScanEnv)
       IN  IF search_paths = <<>>
           THEN /\ last' = Record("scan", 0, Out("exit", <<>>, lib, libCap, 0, 0, {}))
                /\ run' = run
           ELSE /\ last' = NoRecord
                /\ run' =
                     [op |-> "scan",
                      paths |-> search_paths,
                      order |-> [d \in RealDirs |-> AListing(d)],
                      wpc |-> [i \in 1..Len(search_paths) |-> "scan"],
                      found |-> [i \in 1..Len(search_paths) |-> 0],
                      tmp |-> [i \in 1..Len(search_paths) |-> 0],
                      lock |-> 0,
                      files_found |-> 0,
                      estimated_total |->
                          IF lib.exists THEN Len(size.results) ELSE NoEstimate,
                      cpc |-> LoopHead("p1", [i \in 1..Len(search_paths) |-> i]),
                      idx |-> 1,
                      remaining |-> [i \in 1..Len(search_paths) |-> i],
                      done_futures |-> <<>>,
                      path_results |-> <<>>,
                      bar |-> [shown |-> FALSE, completed |-> 0, total |-> 0],
                      last_update_count |-> 0,
                      update_threshold |-> 0,
                      updated |-> NoEstimate]
    /\ UNCHANGED <<now, present, mtimes, lib, libCap, search, hist, cfg>>

\* A step of the scan in progress that changes run only.
Step(r) ==
    /\ run' = r
    /\ UNCHANGED <<now, present, mtimes, lib, libCap, search, hist, cfg, last>>

\* scan_dir: the next file is appended to the worker's result.
WFind(i) ==
    /\ run.op = "scan" /\ run.wpc[i] = "scan"
    /\ run.found[i] < Len(WorkerListing(i))
    /\ Step([run EXCEPT !.found[i] = @ + 1, !.wpc[i] = "callback",
                        !.updated = NoEstimate])

\* progress_callback: the lock is taken and files_found[0] is read ...
WLoad(i) ==
    /\ run.op = "scan" /\ run.wpc[i] = "callback"
    /\ LockFree
    /\ Step([run EXCEPT !.lock = i, !.tmp[i] = run.files_found,
                        !.wpc[i] = "store", !.updated = NoEstimate])

\* ... and written back increased by one, and the lock is released.
WStore(i) ==
    /\ run.op = "scan" /\ run.wpc[i] = "store"
    /\ Step([run EXCEPT !.lock = 0, !.files_found = run.tmp[i] + 1,
                        !.wpc[i] = "scan", !.updated = NoEstimate])

\* The walk is over: the future of the worker is done.
WFinish(i) ==
    /\ run.op = "scan" /\ run.wpc[i] = "scan"
    /\ run.found[i] = Len(WorkerListing(i))
    /\ Step([run EXCEPT !.wpc[i] = "done", !.updated = NoEstimate])

Worker(i) ==
    /\ run.op = "scan"
    /\ i \in Workers
    /\ (WFind(i) \/ WLoad(i) \/ WStore(i) \/ WFinish(i))

Without(seq, gone) ==
    SelectSeq(seq, LAMBDA x : \A k \in 1..Len(gone) : gone[k] # x)

\* One turn of "for future in remaining_futures: if future.done(): ...",
\* and after the last one the removal of the futures that were done.
CPoll ==
    /\ run.op = "scan" /\ run.cpc \in {"p1_for", "bar_for", "silent_for"}
    /\ IF run.idx <= Len(run.remaining)
       THEN LET future == run.remaining[run.idx]
            IN  IF run.wpc[future] = "done"
                THEN Step([run EXCEPT
                             !.path_results = Append(@, future),
                             !.done_futures = Append(@, future),
                             !.idx = @ + 1, !.updated = NoEstimate])
                ELSE Step([run EXCEPT !.idx = @ + 1, !.updated = NoEstimate])
       ELSE LET left == Without(run.remaining, run.done_futures)
            IN  Step([run EXCEPT
                        !.remaining = left,
                        !.done_futures = <<>>,
                        !.idx = 1,
                        !.updated = NoEstimate,
                        !.cpc = IF run.cpc = "p1_for" THEN "p1_count"
                                ELSE IF run.cpc = "bar_for" THEN "bar_count"
                                ELSE LoopHead("silent", left)])

\* Phase 1: the counter is read under the lock; the first file ends the
\* waiting phase.
CFirstFile ==
    /\ run.op = "scan" /\ run.cpc = "p1_count"
    /\ LockFree
    /\ Step([run EXCEPT
               !.updated = NoEstimate,
               !.cpc = IF run.files_found > 0 THEN "p2"
                       ELSE LoopHead("p1", run.remaining)])

\* Phase 2 begins: with an estimate above 0 the progress task is added,
\* without one the coordinator goes on silently.
CPhase2 ==
    /\ run.op = "scan" /\ run.cpc = "p2"
    /\ IF run.estimated_total > 0
       THEN Step([run EXCEPT
                    !.bar = [shown |-> TRUE, completed |-> 0,
                             total |-> run.estimated_total],
                    !.last_update_count = 0,
                    !.update_threshold = UpdateThreshold(run.estimated_total),
                    !.updated = NoEstimate,
                    !.cpc = LoopHead("bar", run.remaining)])
       ELSE Step([run EXCEPT !.updated = NoEstimate,
                             !.cpc = LoopHead("silent", run.remaining)])

\* The counter is read under the lock and the task is updated when enough
\* files are new; a count above the estimate raises the total.
CUpdate ==
    /\ run.op = "scan" /\ run.cpc = "bar_count"
    /\ LockFree
    /\ LET current_count == run.files_found
           next == LoopHead("bar", run.remaining)
       IN  IF current_count - run.last_update_count >= run.update_threshold
           THEN IF current_count > run.estimated_total
                THEN Step([run EXCEPT
                             !.bar.completed = current_count,
                             !.bar.total = NewEstimate(current_count),
                             !.estimated_total = NewEstimate(current_count),
                             !.last_update_count = current_count,
                             !.updated = current_count,
                             !.cpc = next])
                ELSE Step([run EXCEPT
                             !.bar.completed = current_count,
                             !.last_update_count = current_count,
                             !.updated = current_count,
                             !.cpc = next])
           ELSE Step([run EXCEPT !.updated = NoEstimate, !.cpc = next])

\* Final update, under the lock.
CFinal ==
    /\ run.op = "scan" /\ run.cpc = "final"
    /\ LockFree
    /\ Step([run EXCEPT
               !.bar.completed = run.files_found,
               !.bar.total = run.files_found,
               !.updated = run.files_found,
               !.cpc = "return"])

\* _scan_with_progress_bar returns path_results and scan_search_paths
\* merges them.
CReturn ==
    /\ run.op = "scan" /\ run.cpc = "return"
    /\ run' = [run EXCEPT !.cpc = "returned", !.updated = NoEstimate]
    /\ last' = Record("scan",
                      [with_mtime |-> TRUE, prefer_fd |-> cfg.prefer_fd,
                       show_progress |-> TRUE, fd |-> AllOk],
                      Native(Out("ok",
                                 Flatten([k \in 1..Len(run.path_results) |->
                                     WorkerResult(run.path_results[k])]),
                                 lib, libCap, 0, 1, {}),
                             Range(run.paths)))
    /\ UNCHANGED <<now, present, mtimes, lib, libCap, search, hist, cfg>>

Coordinator == CPoll \/ CFirstFile \/ CPhase2 \/ CUpdate \/ CFinal \/ CReturn

(***************************************************************************)
(* SpecProgress: MaxWorkers search paths with up to two files each, with   *)
(* and without an estimate from an earlier snapshot.                       *)
(***************************************************************************)
ProgressFiles ==
    { RealFiles, {},
      { [root |-> "r1", name |-> <<"A", "b", ".", "m">>] },
      { [root |-> "r2", name |-> <<"a", "b", ".", "m">>],
        [root |-> "r2", name |-> <<"c", ".", "t">>] } }

\* One search path, and so one worker, for each of the first MaxWorkers of
\* these.
ProgressPaths == SubSeq(<<"r1", "r2", "lnk">>, 1, MaxWorkers)

SnapshotOf(n) ==
    [exists |-> TRUE, kind |-> "ok", mtime |-> 0,
     files |-> [i \in 1..n |-> BigFile(i)]]

InitProgress ==
    /\ now = 0
    /\ present \in ProgressFiles
    /\ mtimes = [f \in RealFiles |-> 0]
    /\ lib \in {NoLib, SnapshotOf(1), [SnapshotOf(1) EXCEPT !.kind = "malformed", !.files = <<>>]}
    /\ libCap = <<>>
    /\ search = NoSearch
    /\ hist = NoHist
    /\ run = NoRun
    /\ cfg = [BaseCfg EXCEPT !.search_paths = ProgressPaths]
    /\ last = NoRecord

NextProgress ==
    \/ StartScan
    \/ \E i \in 1..MaxWorkers : Worker(i)
    \/ Coordinator

SpecProgress == InitProgress /\ [][NextProgress]_vars

\* The threads of a running process are scheduled again and again.
FairProgress ==
    /\ SpecProgress
    /\ WF_vars(Coordinator)
    /\ \A i \in 1..MaxWorkers : WF_vars(Worker(i))

(***************************************************************************)
(* SpecBar: one search path with MaxBig files and an estimate that is      *)
(* below, at or above the number of files.                                 *)
(***************************************************************************)
BarEstimates == {1, MaxBig - 2, MaxBig, 40}

InitBar ==
    /\ now = 0
    /\ present = BigFiles
    /\ mtimes = [f \in BigFiles |-> 0]
    /\ lib \in { SnapshotOf(n) : n \in BarEstimates }
    /\ libCap = <<>>
    /\ search = NoSearch
    /\ hist = NoHist
    /\ run = NoRun
    /\ cfg = [BaseCfg EXCEPT !.search_paths = <<"r1">>]
    /\ last = NoRecord

NextBar == NextProgress

SpecBar == InitBar /\ [][NextBar]_vars

(***************************************************************************)
(* Two invocations of the program write the same cache file at the same    *)
(* time, each with open(file, "w") and json.dump: two saves of search      *)
(* results, two rebuilds of the library cache, or a save next to           *)
(* save_last_played, which reads the document before it writes it back.    *)
(* The record run holds                                                    *)
(*   file     the content of the file, part by part: <<p, i>> is part i    *)
(*            of the document of invocation p, <<0, i>> part i of the      *)
(*            document an earlier invocation left, Hole a part never        *)
(*            written                                                      *)
(*   kind, pc, doc, pos   per invocation: what it is, where it is, the     *)
(*            number of parts of its document, the parts written so far    *)
(*   order    ghost: the invocations in the order of their open for write  *)
(*   overlapped  ghost: an invocation opened the file while the other had  *)
(*            it open                                                      *)
(***************************************************************************)
Procs == {1, 2}

Hole == <<0, 0>>

\* The document of invocation p, of n parts.
Doc(p, n) == [i \in 1..n |-> <<p, i>>]

\* json.load accepts the content: it is one document from first to last.
Complete(file) ==
    \E p \in Procs \cup {0} : \E n \in 1..(MaxDoc + 1) : file = Doc(p, n)

\* write() at offset pos of a file opened for writing: the parts replace
\* what is there, the file grows as needed, a gap before pos reads as
\* zeros.
WriteAt(file, pos, parts) ==
    LET end == pos + Len(parts)
        size == IF end > Len(file) THEN end ELSE Len(file)
    IN  [i \in 1..size |->
            IF i > pos /\ i <= end THEN parts[i - pos]
            ELSE IF i <= Len(file) THEN file[i]
            ELSE Hole]

RaceStep(r) ==
    /\ run' = r
    /\ UNCHANGED <<now, present, mtimes, lib, libCap, search, hist, cfg, last>>

\* save_last_played: json.load of the document; a torn document ends the
\* invocation with JSONDecodeError, a complete one is written back with
\* the key last_played_index added.
ReadDocument(p) ==
    /\ run.op = "write" /\ run.pc[p] = "read"
    /\ IF Complete(run.file)
       THEN RaceStep([run EXCEPT !.pc[p] = "open",
                                 !.doc[p] = IF Len(run.file) < MaxDoc + 1
                                            THEN Len(run.file) + 1
                                            ELSE Len(run.file)])
       ELSE RaceStep([run EXCEPT !.pc[p] = "failed"])

\* open(file, "w"): the file is truncated, the offset of this invocation
\* is 0.
OpenForWrite(p) ==
    /\ run.op = "write" /\ run.pc[p] = "open"
    /\ RaceStep([run EXCEPT
                   !.file = <<>>,
                   !.pos[p] = 0,
                   !.pc[p] = "write",
                   !.order = Append(@, p),
                   !.overlapped = @ \/ \E q \in Procs : run.pc[q] = "write"])

\* json.dump and the end of the with block: the buffered text reaches the
\* file in one write() or in several, the last one when the file is
\* closed.
WriteParts(p) ==
    /\ run.op = "write" /\ run.pc[p] = "write"
    /\ \E k \in 1..(run.doc[p] - run.pos[p]) :
          RaceStep([run EXCEPT
                      !.file = WriteAt(run.file, run.pos[p],
                                       SubSeq(Doc(p, run.doc[p]),
                                              run.pos[p] + 1, run.pos[p] + k)),
                      !.pos[p] = @ + k,
                      !.pc[p] = IF run.pos[p] + k = run.doc[p]
                                THEN "done" ELSE "write"])

Kinds == { <<"save", "save">>, <<"rebuild", "rebuild">>, <<"save", "play">> }

InitRace ==
    /\ now = 0
    /\ present = RealFiles
    /\ mtimes = [f \in RealFiles |-> 0]
    /\ lib = NoLib
    /\ libCap = <<>>
    /\ search = NoSearch
    /\ hist = NoHist
    /\ cfg = BaseCfg
    /\ last = NoRecord
    /\ \E kinds \in Kinds, n0 \in 1..MaxDoc, n1 \in 1..MaxDoc, n2 \in 1..MaxDoc :
          run = [op |-> "write",
                 file |-> Doc(0, n0),
                 kind |-> [p \in Procs |-> kinds[p]],
                 pc |-> [p \in Procs |->
                            IF kinds[p] = "play" THEN "read" ELSE "open"],
                 doc |-> [p \in Procs |-> IF p = 1 THEN n1 ELSE n2],
                 pos |-> [p \in Procs |-> 0],
                 order |-> <<>>,
                 overlapped |-> FALSE]

NextRace ==
    \E p \in Procs : ReadDocument(p) \/ OpenForWrite(p) \/ WriteParts(p)

SpecRace == InitRace /\ [][NextRace]_vars

(***************************************************************************)
(* Claims.                                                                 *)
(***************************************************************************)
\* The entries a native scan of the valid search roots finds now.
CurrentEntries(with_mtime) ==
    { FileResult([root |-> r, name |-> f.name],
                 IF with_mtime THEN mtimes[f] ELSE NoMtime) :
        <<r, f>> \in { rf \in Range(get_validated_search_paths) \X present :
                         rf[2].root = Target(rf[1]) } }

Paths(results) == [i \in 1..Len(results) |-> results[i].file]

\* The operation just completed was a rebuild of the current files that
\* replaced the library cache file.
RebuiltNow ==
    /\ last.status = "ok"
    /\ last.rebuilds = 1
    /\ last.scans = 1
    /\ lib.exists /\ lib.kind = "ok" /\ lib.mtime = now
    /\ lib.files = Paths(last.results)
    /\ Range(last.results) = CurrentEntries(TRUE)

\* The operation just completed returned the stored list and left the
\* library cache file alone.
ServedFromSnapshot ==
    /\ last.status = "ok"
    /\ last.results = FromPaths(last.pre.files)
    /\ last.rebuilds = 0
    /\ last.scans = 0
    /\ lib = last.pre

LoadedWellFormed ==
    last.op = "load" /\ last.pre.exists /\ last.pre.kind = "ok"

\* C1: with a present, well-formed snapshot and a TTL T > 0,
\* load_library_cache() at age <= T returns the stored file list unchanged
\* without scanning or rewriting the snapshot, and at age > T rebuilds and
\* replaces the snapshot; age = T is still fresh.
Thm_C1 ==
    (LoadedWellFormed /\ cfg.ttl > 0) =>
        IF last.preAge <= cfg.ttl THEN ServedFromSnapshot ELSE RebuiltNow

\* A load exactly at age T that serves a snapshot which no longer matches the
\* files on disk.
Wit_C1 ==
    /\ LoadedWellFormed /\ cfg.ttl > 0
    /\ last.preAge = cfg.ttl
    /\ ServedFromSnapshot
    /\ Range(last.results) # CurrentEntries(FALSE)

\* A load just past age T.
Wit_C1_stale ==
    /\ LoadedWellFormed /\ cfg.ttl > 0
    /\ last.preAge = cfg.ttl + 1
    /\ RebuiltNow

\* C2: with library_cache_interval = 0 and a present snapshot file,
\* is_cache_expired() is false at every time, and a load of a well-formed
\* snapshot never rebuilds it, whatever its age.
Thm_C2 ==
    /\ (cfg.ttl = 0 /\ lib.exists) => ~is_cache_expired
    /\ (LoadedWellFormed /\ cfg.ttl = 0) => ServedFromSnapshot

\* A load with TTL 0 of a snapshot older than every positive TTL of the model.
Wit_C2 ==
    /\ LoadedWellFormed /\ cfg.ttl = 0
    /\ last.preAge > MaxTTL
    /\ ServedFromSnapshot

LoadedCorrupted(op) ==
    last.op = op /\ last.pre.exists /\ last.pre.kind \in CorruptKinds

\* C4: on a present but corrupted snapshot a read with rebuilding allowed
\* rebuilds and returns the fresh scan; get_library_cache_size (rebuilding
\* not allowed) yields an empty result and leaves the file as it was.
Thm_C4 ==
    /\ LoadedCorrupted("load") =>
          /\ last.rebuilds = 1
          /\ last.status = "ok" => RebuiltNow
    /\ LoadedCorrupted("size") =>
          /\ last.status = "ok"
          /\ last.results = <<>>
          /\ last.rebuilds = 0 /\ last.scans = 0
          /\ lib = last.pre

\* A load of a corrupted snapshot that has not expired.
Wit_C4 ==
    /\ LoadedCorrupted("load") /\ cfg.ttl = 0
    /\ RebuiltNow

\* A size query on a snapshot that is malformed JSON.
Wit_C4_size ==
    /\ LoadedCorrupted("size") /\ last.pre.kind = "malformed"
    /\ lib = last.pre

Count(seq, x) == Cardinality({ i \in 1..Len(seq) : seq[i] = x })

\* C5: after save_search_results(pattern, R), get_result_by_index(N) with
\* 1 <= N <= |R| resolves to the N-th entry of R (its resolved path, without
\* modification time): it returns that entry whenever the file exists and
\* never returns another one; queries executed since the save without
\* being saved change neither the stored list nor what an index resolves to.
GetInRange ==
    last.op = "get" /\ search.exists /\ last.arg \in 1..Len(hist.given)

IsMedia(r) ==
    (cfg.match_extensions /\ cfg.media_extensions # {})
        => LowerSeq(Suffix(r.file.name)) \in cfg.media_extensions

\* The source of a query: the files of the snapshot, in its order, with
\* library caching; a scan of the current files without.
SourceIsRight(with_mtime) ==
    IF cfg.cache_library
    THEN Paths(last.source) = lib.files
    ELSE /\ Range(last.source) = CurrentEntries(with_mtime)
         /\ Len(last.source) = Cardinality(CurrentEntries(with_mtime))

\* C6: FindQuery(p).execute() returns exactly the entries of its source
\* (the snapshot with library caching, a fresh scan without) whose filename
\* matches the normalised pattern case-insensitively and, when
\* match_extensions is set and media_extensions is not empty, whose
\* lower-cased suffix is in media_extensions; ascending by lower-cased
\* filename.
Thm_C6 ==
    (last.op = "find" /\ last.status = "ok") =>
        LET pat == normalize_pattern(last.arg)
            Wanted(r) == IsMedia(r)
                            /\ Fnmatch(LowerSeq(r.file.name), LowerSeq(pat))
        IN  /\ SourceIsRight(FALSE)
            /\ \A x \in Range(last.source) \cup Range(last.results) :
                  Count(last.results, x)
                      = IF Wanted(x) THEN Count(last.source, x) ELSE 0
            /\ \A i, j \in 1..Len(last.results) :
                  i < j => StrLeq(LowerSeq(last.results[i].file.name),
                                  LowerSeq(last.results[j].file.name))

\* find b over four files: three match *b* and are media files (one by its
\* upper-case suffix), two of them with the same lower-cased name.
Wit_C6 ==
    /\ last.op = "find" /\ last.status = "ok" /\ last.arg = <<"b">>
    /\ cfg.match_extensions /\ cfg.media_extensions # {}
    /\ Len(last.source) = Cardinality(RealFiles)
    /\ Len(last.results) = Cardinality(RealFiles) - 1
    /\ \E i \in 1..Len(last.results) : Suffix(last.results[i].file.name) = <<".", "M">>

\* The modification time an entry of a query result was ordered by: the
\* one captured by the rebuild with library caching, its own without.
OrderedBy(r) ==
    IF cfg.cache_library
    THEN libCap[CHOOSE i \in 1..Len(lib.files) : lib.files[i] = r.file]
    ELSE r.mtime

Eligible == { r \in Range(last.source) : IsMedia(r) }

Wit_C7_all ==
    /\ last.op = "new" /\ last.status = "ok" /\ cfg.cache_library
    /\ last.arg > Cardinality(Eligible)
    /\ Len(last.results) = Cardinality(Eligible)
    /\ Eligible # {}

FdFailed ==
    /\ last.op = "scan"
    /\ UseFd(last.arg.prefer_fd, last.arg.with_mtime)
    /\ \E r \in Range(get_validated_search_paths) : last.arg.fd[r] \in FdFailures
    /\ \A r \in Range(get_validated_search_paths) :
          last.arg.fd[r] \in FdFailures \cup {"ok"}

\* C8: when the fd scan fails for a root with FileNotFoundError,
\* CalledProcessError or OSError, scan_search_paths completes and returns
\* the files the native scanner finds under the same roots.
Thm_C8 ==
    FdFailed =>
        /\ last.status = "ok"
        /\ Range(last.results) = CurrentEntries(FALSE)
        /\ Len(last.results) = Cardinality(CurrentEntries(FALSE))

\* fd exits non-zero for one root and succeeds for another.
Wit_C8 ==
    /\ FdFailed /\ last.status = "ok" /\ last.results # <<>>
    /\ \E r, q \in Range(get_validated_search_paths) :
          last.arg.fd[r] = "CalledProcessError" /\ last.arg.fd[q] = "ok"

\* C9: a scan with modification-time capture invokes fd for no root,
\* whatever prefer_fd is, and every entry of its result carries the
\* modification time of its file.
Thm_C9 ==
    (last.op = "scan" /\ last.arg.with_mtime) =>
        /\ last.fdRoots = {}
        /\ last.status = "ok"
        /\ \A i \in 1..Len(last.results) :
              /\ last.results[i].mtime # NoMtime
              /\ last.results[i].mtime = mtimes[Resolve(last.results[i].file)]

\* A scan with modification times although prefer_fd is set.
Wit_C9 ==
    /\ last.op = "scan" /\ last.arg.with_mtime /\ last.arg.prefer_fd
    /\ last.status = "ok" /\ last.results # <<>>

\* C10: get_result_by_index(N) ends in a terminating error, and returns no
\* entry, for every N outside 1..len(results) of the saved query (0 and
\* negative N included) and when the N-th file no longer exists.
Claim_C10 ==
    (last.op = "get" /\ search.exists) =>
        IF last.arg \in 1..Len(search.results)
        THEN ~Exists(search.results[last.arg]) =>
                 (last.status = "exit" /\ last.results = <<>>)
        ELSE last.status = "exit" /\ last.results = <<>>

\* What the code does for N outside 1..len(results): the rejected N are
\* those below 1 - len(results) and above len(results).
Holds_C10 ==
    (last.op = "get" /\ search.exists) =>
        /\ (last.arg > Len(search.results) \/ last.arg < 1 - Len(search.results))
              => (last.status = "exit" /\ last.results = <<>>)
        /\ (last.arg \in 1..Len(search.results)
                /\ ~Exists(search.results[last.arg]))
              => (last.status = "exit" /\ last.results = <<>>)

\* C11: after rebuild_library_cache() the snapshot lists exactly the files
\* a modification-time scan of the valid search roots finds, each once, in
\* non-increasing order of the modification times captured, and the
\* collection returned has the order of the list written.  (last.source is
\* what the rebuild returned, also when a query triggered it.)
Thm_C11 ==
    (last.rebuilds = 1 /\ last.status = "ok") =>
        /\ lib.exists /\ lib.kind = "ok"
        /\ Paths(last.source) = lib.files
        /\ Range(last.source) = CurrentEntries(TRUE)
        /\ Len(last.source) = Cardinality(CurrentEntries(TRUE))
        /\ libCap = [i \in 1..Len(last.source) |-> last.source[i].mtime]
        /\ \A i, j \in 1..Len(last.source) :
              i < j => last.source[i].mtime >= last.source[j].mtime

\* A rebuild over files of different age: the newest file, which is not the
\* first one of the first search root, heads the snapshot.
Wit_C11 ==
    /\ last.rebuilds = 1 /\ last.status = "ok"
    /\ Len(lib.files) = Cardinality(RealFiles)
    /\ lib.files[1] = Rewritten
    /\ libCap[1] > libCap[2]

SortedByMtime == last.op = "sort" /\ last.arg.by_mtime

\* C12: sort(by_mtime=True) raises when an entry of the collection has no
\* modification time and then leaves the entries and their order as they
\* were; when every entry has one it does not raise, and what it leaves is
\* a rearrangement of the entries in the order asked for.
Thm_C12 ==
    SortedByMtime =>
        /\ (last.status = "raise")
              <=> (\E i \in 1..Len(last.source) : last.source[i].mtime = NoMtime)
        /\ last.status = "raise" => last.results = last.source
        /\ last.status = "ok" =>
              /\ \A x \in Range(last.source) \cup Range(last.results) :
                    Count(last.results, x) = Count(last.source, x)
              /\ \A i, j \in 1..Len(last.results) :
                    i < j => IF last.arg.reverse
                             THEN last.results[i].mtime <= last.results[j].mtime
                             ELSE last.results[i].mtime >= last.results[j].mtime

\* A refused sort of a collection that is out of order and whose entry
\* without modification time is not the first one.
Wit_C12 ==
    /\ SortedByMtime /\ last.status = "raise"
    /\ Len(last.results) = MaxLen
    /\ last.results[1].mtime # NoMtime
    /\ last.results[2].mtime = NoMtime
    /\ last.results[1].mtime < last.results[3].mtime

\* A sort by modification time that rearranges a complete collection.
Wit_C12_sorted ==
    /\ SortedByMtime /\ last.status = "ok"
    /\ Len(last.results) = MaxLen
    /\ last.results # last.source

\* C13: a second filter_by_extension with the same extensions, a second
\* filter_by_pattern with the same pattern and a second sort with the same
\* key and reverse flag leave the collection as the first call left it.
Thm_C13 ==
    /\ last.op = "filter_by_extension" =>
          filter_by_extension(last.results, last.arg) = last.results
    /\ last.op = "filter_by_pattern" =>
          filter_by_pattern(last.results, last.arg) = last.results
    /\ last.op = "sort" =>
          Sort(last.results, last.arg.by_mtime, last.arg.reverse) = last.results

\* A sort against the default direction that moved entries and left two
\* different entries with one key side by side.
Wit_C13 ==
    /\ last.op = "sort" /\ last.status = "ok"
    /\ last.arg.by_mtime # last.arg.reverse
    /\ last.results # last.source
    /\ \E i \in 1..(Len(last.results) - 1) :
          /\ last.results[i] # last.results[i + 1]
          /\ IF last.arg.by_mtime
             THEN last.results[i].mtime = last.results[i + 1].mtime
             ELSE SortKeyName(last.results[i]) = SortKeyName(last.results[i + 1])

\* Filters that dropped entries.
Wit_C13_filtered ==
    /\ last.op \in {"filter_by_extension", "filter_by_pattern"}
    /\ last.results # <<>>
    /\ Len(last.results) < Len(last.source)

FilesOf(results) == { results[i].file : i \in 1..Len(results) }

\* The two queries run from the state as it is, FindQuery with pattern "*",
\* NewQuery with n the number of all files, under environment choices e[1]
\* and e[2].
BothQueries ==
    { <<find_query_execute(Star, e[1]),
        new_query_execute(Cardinality(RealFiles), e[2])>> :
        e \in QueryEnvs(FALSE) \X QueryEnvs(TRUE) }

\* C14: from one configuration, file system and library cache state,
\* FindQuery("*") and NewQuery(n) with n not below the number of files
\* return the same set of files whenever both return.
Thm_C14 ==
    \A q \in BothQueries :
        (q[1].status = "ok" /\ q[2].status = "ok")
            => FilesOf(q[1].results) = FilesOf(q[2].results)

\* Both queries are served from a fresh snapshot, extension matching is
\* off and a file outside media_extensions is returned by both, in
\* different order.
Wit_C14 ==
    /\ ~cfg.match_extensions /\ cfg.media_extensions # {}
    /\ cfg.cache_library /\ lib.exists /\ ~is_cache_expired
    /\ \E q \in BothQueries :
          /\ q[1].status = "ok" /\ q[2].status = "ok"
          /\ Len(q[1].results) = Cardinality(RealFiles)
          /\ Len(q[2].results) = Cardinality(RealFiles)
          /\ q[1].results[1].file # q[2].results[1].file

\* The same with extension matching on: both leave out the same file.
Wit_C14_media ==
    /\ cfg.match_extensions /\ cfg.media_extensions # {}
    /\ \E q \in BothQueries :
          /\ q[1].status = "ok" /\ q[2].status = "ok"
          /\ Len(q[1].results) = Cardinality(RealFiles) - 1
          /\ Len(q[2].results) = Cardinality(RealFiles) - 1

RanCommand == last.op \in {"mf find", "mf new"}

\* The entries of the query's source that the query of the command keeps.
Kept ==
    { x \in Range(last.source) :
        /\ IsMedia(x)
        /\ last.op = "mf find" =>
              Fnmatch(LowerSeq(x.file.name),
                      LowerSeq(normalize_pattern(last.arg.input))) }

Wit_C15_new ==
    /\ last.op = "mf new" /\ last.status = "exit0"
    /\ ~search.exists /\ last.source # <<>>

\* A command with results replaces an earlier result.
Wit_C15_saved ==
    /\ RanCommand /\ last.status = "ok"
    /\ last.arg.before.exists
    /\ search.results # last.arg.before.results

NoValidPath == get_validated_search_paths = <<>>

\* C16: without a valid search path every scan, query and rebuild ends in
\* an error before a scanning worker is started, and leaves an existing
\* library cache file as it was.
Claim_C16 ==
    (NoValidPath /\ last.op \in {"scan", "find", "new", "rebuild"}) =>
        /\ last.status = "exit"
        /\ last.scans = 0 /\ last.fdRoots = {}
        /\ lib = last.pre

\* The snapshot was there, well-formed and not expired when the operation
\* began.
FreshBefore ==
    /\ last.pre.exists /\ last.pre.kind = "ok"
    /\ cfg.ttl = 0 \/ last.preAge <= cfg.ttl

\* What the code does without a valid search path: scans, rebuilds and the
\* queries that have to scan end in Exit(1) before a worker is started; a
\* query or load with library caching that finds a fresh snapshot returns
\* from it.  The library cache file is never written.
Holds_C16 ==
    (NoValidPath /\ last.op \in {"scan", "find", "new", "load", "rebuild"}) =>
        /\ last.scans = 0 /\ last.fdRoots = {} /\ last.rebuilds = 0
        /\ lib = last.pre
        /\ IF /\ last.op \in {"find", "new", "load"}
              /\ last.op = "load" \/ cfg.cache_library
              /\ FreshBefore
           THEN last.status = "ok" /\ last.source = FromPaths(last.pre.files)
           ELSE last.status = "exit" /\ last.results = <<>>

\* C17: a walk of a search path returns normally whatever directories
\* raise PermissionError, reports no file twice and nothing but the files
\* below the search path, and reports every file whose directory and all
\* directories between it and the search path are walked without error;
\* the files of the parent of an unreadable directory are among them.
Chain(search_path, dir) ==
    { d \in Below(search_path) : dir \in Below(d) }

Readable(search_path, fail) ==
    { f \in present :
        /\ f.root \in Below(search_path)
        /\ \A d \in Chain(search_path, f.root) : fail[d] = NoError }

Thm_C17 ==
    last.op = "walk" =>
        /\ last.status = "ok"
        /\ \A i, j \in 1..Len(last.results) :
               i # j => last.results[i].file # last.results[j].file
        /\ FilesOf(last.results) \subseteq
               { f \in present : f.root \in Below(last.arg.search_path) }
        /\ Readable(last.arg.search_path, last.arg.fail) \subseteq
               FilesOf(last.results)
        /\ \A i \in 1..Len(last.results) :
               last.results[i].mtime =
                   IF last.arg.with_mtime THEN mtimes[last.results[i].file]
                   ELSE NoMtime

\* os.scandir raises for t/a, which is listed first in t, and the walk of
\* t still reports the file of t and the file of t/b.
Wit_C17 ==
    /\ last.op = "walk"
    /\ last.arg.search_path = "t"
    /\ last.arg.fail = [NoFail EXCEPT !["t/a"] = 0]
    /\ last.arg.order["t"][1] = SubDirEntry("t/a")
    /\ FilesOf(last.results) =
           { f \in TreeFiles : f.root \in {"t", "t/b"} }

\* The error is raised in t after its first entry, a file: the walk
\* reports that file alone.
Wit_C17_midway ==
    /\ last.op = "walk"
    /\ last.arg.search_path = "t"
    /\ last.arg.fail["t"] = 1
    /\ Len(last.results) = 1

\* C18: a read of the snapshot with rebuilding not allowed
\* (get_library_cache_size) returns an empty result, not an error, when
\* library.json is missing, as it does when library.json is malformed.
Claim_C18 ==
    (last.op = "size" /\ (~last.pre.exists \/ last.pre.kind # "ok")) =>
        /\ last.status = "ok"
        /\ last.results = <<>>

\* What the code does instead: the empty result is given for a file that
\* is there and malformed; without a file the read ends in the
\* FileNotFoundError of open(), and in neither case is anything rebuilt.
Holds_C18 ==
    last.op = "size" =>
        /\ last.rebuilds = 0
        /\ lib = last.pre
        /\ ~last.pre.exists => last.status = "raise"
        /\ (last.pre.exists /\ last.pre.kind # "ok") =>
               last.status = "ok" /\ last.results = <<>>

Unsupported ==
    /\ last.op = "scan"
    /\ UseFd(last.arg.prefer_fd, last.arg.with_mtime)
    /\ get_validated_search_paths # <<>>
    /\ \A r \in Range(get_validated_search_paths) :
          last.arg.fd[r] = "RuntimeError"

GivenN == IF last.op = "new" THEN last.arg ELSE last.arg.input

\* C21: NewQuery and mf new with n <= 0 end in an error and produce no
\* result list.
Claim_C21 ==
    (last.op \in {"new", "mf new"} /\ GivenN <= 0) =>
        /\ last.status \in {"exit", "raise"}
        /\ last.results = <<>>

\* What the code does instead: n is the stop of a slice.  n = 0 gives the
\* empty list (the command exits with code 0), a negative n gives the
\* list without its last -n entries, and the command saves it.
Holds_C21 ==
    (last.op \in {"new", "mf new"} /\ GivenN <= 0
        /\ last.status \in {"ok", "exit0"}) =>
        /\ LET eligible == Cardinality({ i \in 1..Len(last.source) :
                                            IsMedia(last.source[i]) })
           IN  Len(last.results) =
                   IF GivenN < 0 /\ eligible + GivenN > 0
                   THEN eligible + GivenN ELSE 0
        /\ last.op = "mf new" =>
               (last.status = "ok") = (last.results # <<>>)

\* mf new with n = -1 lists and saves a result.
Seen_C21 ==
    /\ last.op = "mf new" /\ GivenN = 0 - 1
    /\ last.status = "ok" /\ last.results # <<>>
    /\ search.exists /\ search.results # <<>>

AllDone == run.op = "scan" /\ \A i \in Workers : run.wpc[i] = "done"

Returned == run.op = "scan" /\ run.cpc = "returned"

\* What the coordinator has collected at any moment: no future twice, and
\* only futures that are done; when it returns, every worker has finished
\* and every result is there.
Collected ==
    run.op = "scan" =>
        /\ \A j, k \in 1..Len(run.path_results) :
              j # k => run.path_results[j] # run.path_results[k]
        /\ \A k \in 1..Len(run.path_results) :
              run.wpc[run.path_results[k]] = "done"
        /\ run.cpc \in {"return", "returned"} =>
              /\ AllDone
              /\ run.remaining = <<>>
              /\ Range(run.path_results) = Workers

\* C22: in whatever order the workers complete, with or without an
\* estimate, _scan_with_progress_bar collects the result of every worker
\* exactly once, returns only when all workers have finished, and does
\* return once they have.
Thm_C22 == [] Collected /\ (AllDone ~> Returned)

\* The scan has returned without an estimate, the second worker having
\* been collected before the first, after the waiting phase was left with
\* both workers still at work.
Wit_C22 ==
    /\ Returned
    /\ run.estimated_total = NoEstimate
    /\ run.path_results = <<2, 1>>
    /\ run.files_found > 1

\* Both workers complete during the waiting phase: nothing is found.
Wit_C22_waiting ==
    /\ Returned /\ run.files_found = 0 /\ Len(run.path_results) = 2

\* The scan has returned after the progress bar was shown.
Wit_C22_bar ==
    /\ Returned /\ run.bar.shown /\ Len(run.path_results) = 2
    /\ run.path_results[1] = 2

RECURSIVE SumTo(_, _)
SumTo(f, n) == IF n = 0 THEN 0 ELSE f[n] + SumTo(f, n - 1)

\* The callbacks completed so far: a worker between the append and the
\* end of its callback has one file that is not counted yet.
Counted ==
    SumTo([i \in Workers |->
              IF run.wpc[i] \in {"callback", "store"}
              THEN run.found[i] - 1 ELSE run.found[i]],
          Len(run.paths))

\* C23: files_found[0] never decreases and counts every completed
\* callback; once all workers have finished it is the number of entries
\* of all their results, and of the merged result the scan returns.
Thm_C23 ==
    /\ [] (run.op = "scan" =>
             /\ run.files_found = Counted
             /\ AllDone => run.files_found = SumTo(run.found, Len(run.paths))
             /\ Returned => run.files_found = Len(last.results))
    /\ [][(run.op = "scan" /\ run'.op = "scan")
             => run'.files_found >= run.files_found]_vars

\* All four files are counted; both workers have found two.
Wit_C23 ==
    /\ Returned
    /\ run.files_found = Cardinality(RealFiles)
    /\ \A i \in Workers : run.found[i] > 1

\* One worker waits for the lock the other one holds.
Wit_C23_contention ==
    /\ run.op = "scan"
    /\ \E i, j \in Workers : run.lock = i /\ run.wpc[j] = "callback"

\* C29: the completed count of the progress task never exceeds its total:
\* an update that finds the count above the estimate raises the total to
\* the count plus 10 %, rounded down, every other update leaves the total
\* as it is, and the final update sets completed and total to the number
\* of files found.
Thm_C29 ==
    /\ [] (run.op = "scan" =>
             /\ run.bar.completed <= run.bar.total
             /\ (run.bar.shown /\ run.cpc \in {"return", "returned"}) =>
                   /\ run.bar.completed = run.files_found
                   /\ run.bar.total = run.files_found
                   /\ run.files_found = SumTo(run.found, Len(run.paths))
             /\ Returned => run.files_found = Len(last.results))
    /\ [][(run.op = "scan" /\ run.cpc = "bar_count"
             /\ run'.updated # NoEstimate) =>
                /\ run'.bar.completed = run.files_found
                /\ run'.bar.total =
                      IF run.files_found > run.bar.total
                      THEN (run.files_found * 11) \div 10
                      ELSE run.bar.total]_vars

\* An update finds MaxBig - 1 files, more than the estimate: the total
\* becomes that count plus 10 %, which is more than the count.
Wit_C29 ==
    /\ run.op = "scan" /\ run.cpc \in {"bar_for", "bar_count", "final"}
    /\ run.updated = MaxBig - 1
    /\ run.bar.completed = MaxBig - 1
    /\ run.bar.total = ((MaxBig - 1) * 11) \div 10
    /\ run.bar.total > run.bar.completed

\* The final update after a total that was never reached.
Wit_C29_final ==
    /\ Returned /\ run.bar.shown
    /\ run.bar.completed = MaxBig /\ run.bar.total = MaxBig
    /\ run.estimated_total > MaxBig

\* A play next on a saved list: last.arg.played is the place of the entry
\* handed out before it.
PlayedNext == last.op = "play next" /\ last.arg.before.exists

\* What play next has to do after the entry at place played.
NextAfter(played) ==
    IF played < Len(search.results)
    THEN /\ last.status = "ok"
         /\ last.results = <<FromString(search.results[played + 1])>>
         /\ hist.played = played + 1
    ELSE /\ last.status = "exit"
         /\ last.results = <<>>

\* C24: play next hands out the entry after the one handed out last (the
\* first one when none was, entry N+1 after play <N>), and reports that the
\* last file was already played after the last entry, for every saved
\* list, a list that holds a path twice included.
Claim_C24 == PlayedNext => NextAfter(last.arg.played)

NoDuplicates(data) ==
    \A i, j \in 1..Len(data) : i # j => data[i] # data[j]

\* What the code does: the claim holds for a saved list without
\* duplicates; in any list, play next hands out the entry after the first
\* occurrence of the path handed out last.
Holds_C24 ==
    PlayedNext =>
        /\ NoDuplicates(search.results) => NextAfter(last.arg.played)
        /\ last.arg.played > 0 =>
              NextAfter(Index(search.results,
                              search.results[last.arg.played]) + 1)

\* C25: save_search_results leaves the document without last_played_index,
\* and the first play next after it hands out the first entry of the new
\* list, whatever was played before.
Thm_C25 ==
    /\ (last.op \in {"mf find", "mf new"} /\ last.status = "ok") =>
          /\ search.exists
          /\ search.last_played_index = NoIndex
    /\ (PlayedNext /\ last.arg.played = 0) =>
          /\ last.arg.before.last_played_index = NoIndex
          /\ last.status = "ok"
          /\ last.results = <<FromString(search.results[1])>>
          /\ search.last_played_index = 0

\* The first entry of a new list is handed out after entries of an
\* earlier list were played.
Wit_C25 ==
    /\ PlayedNext /\ last.arg.played = 0
    /\ hist.playedBefore
    /\ last.status = "ok"
    /\ Len(search.results) > 1

\* A save over a document that had a last_played_index above 0.
Wit_C25_save ==
    /\ last.op \in {"mf find", "mf new"} /\ last.status = "ok"
    /\ last.arg.before.exists
    /\ last.arg.before.last_played_index > 0
    /\ search.last_played_index = NoIndex

ReadOnly ==
    \/ last.op \in {"find", "new"} /\ ~cfg.cache_library
    \/ last.op \in {"size", "save", "get", "play next"}

\* C26: library.json is written by rebuild_library_cache alone.  FindQuery
\* and NewQuery without library caching, get_library_cache_size,
\* save_search_results, save_last_played and get_result_by_index leave it
\* as they find it, missing or damaged as it may be, and every operation
\* that changes it has run one rebuild.
Thm_C26 ==
    /\ [] (ReadOnly => lib = last.pre /\ last.rebuilds = 0)
    /\ [][(lib' # lib /\ last'.op # "none") =>
             /\ last'.rebuilds = 1
             /\ last'.op \in {"rebuild", "find", "new"}
             /\ last'.op \in {"find", "new"} => cfg.cache_library]_vars

\* The size of a damaged snapshot is asked for, and the file stays damaged.
Wit_C26 ==
    /\ last.op = "size"
    /\ last.pre.exists /\ last.pre.kind # "ok"
    /\ lib = last.pre
    /\ last.status = "ok"

\* A query without library caching next to a damaged snapshot.
Wit_C26_query ==
    /\ last.op \in {"find", "new"} /\ ~cfg.cache_library
    /\ last.status = "ok" /\ last.results # <<>>
    /\ lib.exists /\ lib.kind # "ok"

\* An entry is played while there is no snapshot.
Wit_C26_play ==
    /\ last.op = "play next" /\ last.status = "ok" /\ ~lib.exists

\* C27: one call of load_library_cache or rebuild_library_cache runs at
\* most one rebuild, and a rebuild is one scan and one write of the
\* snapshot, also when the snapshot it finds is damaged: the lookup of the
\* size estimate inside the scan starts no rebuild of its own.
Thm_C27 ==
    last.op \in {"load", "rebuild"} =>
        /\ last.rebuilds <= 1
        /\ last.op = "rebuild" => last.rebuilds = 1
        /\ last.rebuilds = 1 =>
              /\ last.scans = 1
              /\ last.status = "ok"
              /\ lib.exists /\ lib.kind = "ok" /\ lib.mtime = now
              /\ lib.files = Paths(last.results)
        /\ last.rebuilds = 0 => last.scans = 0 /\ lib = last.pre

\* A rebuild over a damaged snapshot.
Wit_C27 ==
    /\ last.op = "rebuild"
    /\ last.pre.exists /\ last.pre.kind # "ok"
    /\ last.rebuilds = 1 /\ last.scans = 1
    /\ last.results # <<>>

\* A load that finds a damaged snapshot and rebuilds it.
Wit_C27_load ==
    /\ last.op = "load"
    /\ last.pre.exists /\ last.pre.kind # "ok"
    /\ last.rebuilds = 1 /\ last.scans = 1

Scanned == last.op \in {"scan", "find", "rebuild"} /\ last.status = "ok"

\* C28: the result of a scan, a find listing and the library snapshot hold
\* no path twice, whatever the valid search paths are, one inside another
\* included.
Claim_C28 ==
    Scanned =>
        /\ NoDuplicates(Paths(last.results))
        /\ last.op = "rebuild" => NoDuplicates(lib.files)

\* The files a search path reaches.
Reached(root) == { f \in present : f.root \in Below(Target(root)) }

\* What the code does: the results of the search paths are concatenated,
\* so a file is in the result of a scan once for every search path that
\* reaches it; the result is free of duplicates when no file is reached
\* from two search paths.
Holds_C28 ==
    (last.op = "scan" /\ last.status = "ok") =>
        LET sp == get_validated_search_paths
        IN  /\ \A f \in present :
                  Cardinality({ i \in 1..Len(last.results) :
                                  Resolve(last.results[i].file) = f })
                      = Cardinality({ k \in 1..Len(sp) : f \in Reached(sp[k]) })
            /\ (\A j, k \in 1..Len(sp) :
                   j # k => Reached(sp[j]) \cap Reached(sp[k]) = {})
                  => NoDuplicates(Paths(last.results))

\* Two search paths side by side: no path is found twice.
Seen_C28 ==
    /\ last.op = "scan" /\ last.status = "ok"
    /\ cfg.search_paths = <<"t/b", "t/a">>
    /\ Len(last.results) > 2
    /\ NoDuplicates(Paths(last.results))

BothFinished ==
    /\ run.op = "write"
    /\ \A p \in Procs : run.pc[p] \in {"done", "failed"}

\* C30: when both invocations have finished, the file holds exactly the
\* complete document one of them wrote, never a mixture of the two.
Claim_C30 ==
    (BothFinished /\ run.order # <<>>) =>
        \E p \in Procs : run.pc[p] = "done" /\ run.file = Doc(p, run.doc[p])

\* What the code gives: the complete document of the later invocation when
\* the two did not have the file open at the same time; otherwise the
\* file can hold parts of both.
Holds_C30 ==
    (BothFinished /\ run.order # <<>> /\ ~run.overlapped) =>
        LET p == run.order[Len(run.order)]
        IN  run.file = Doc(p, run.doc[p])

\* A file with parts of both documents: the second invocation, whose
\* document is the shorter one, has written over the beginning of the
\* first.
Seen_C30 ==
    /\ BothFinished
    /\ ~Complete(run.file)
    /\ \E i, j \in 1..Len(run.file) :
          run.file[i][1] = 1 /\ run.file[j][1] = 2

====
